---- MODULE Spec2Model ----
(***************************************************************************)
(* Ponto Eletronico: the shift reconstruction and work-hours calculation   *)
(* of components/AdminDashboard.tsx, and the event store kept by App.tsx   *)
(* and by the Postgres / KV API handlers.                                  *)
(*                                                                         *)
(* Times are JavaScript epoch milliseconds (integers).  Currency amounts   *)
(* are exact rationals: a payment is [cents, frac] and stands for          *)
(* cents + frac / PayDen hundredths of a currency unit.                    *)
(***************************************************************************)
EXTENDS Integers, Sequences, FiniteSets, TLC

VARIABLES
    input,      \* SpecCalc: the event list handed to the pure functions
    shifts,     \* SpecCalc: groupEventsByShifts(input), once computed
    details,    \* SpecCalc: calculateWorkDetails(input), once computed
    calcDone,   \* SpecCalc: TRUE once the two functions have been applied
    allEvents,          \* SpecReport: the allEvents prop of AdminDashboard
    startDate,          \* SpecReport: first day of the period (day number)
    endDate,            \* SpecReport: last day of the period (day number)
    selectedEmployeeId, \* SpecReport: "all" or an employee id as a string
    filtered,           \* SpecReport: filteredEvents, the events of the report
    summary,            \* SpecReport: the period summary, once computed
    reported,           \* SpecReport: TRUE once the summary has been computed
    csv,                \* SpecReport: what handleExportCSV has produced
    impl,           \* Spec: the store implementation, "app", "pg" or "kv"
    employees,      \* Spec: the stored employee records
    storedEvents,   \* Spec: the stored clock events
    backupHistory,  \* Spec: the automatic backup history (App.tsx only)
    now,            \* Spec: the clock, Date.now()
    nextEventId,    \* Spec: the events.id SERIAL sequence (Postgres only)
    nextEmployeeId, \* Spec: the employees.id SERIAL sequence (Postgres only)
    opCount,        \* Spec: the number of requests handled so far
    response,       \* Spec: the last request and what was answered
    delivered,      \* SpecRefresh: the allEvents state of App, as last delivered
    appRenders,     \* SpecRefresh: how many times App has rendered again
    lastRefresh,    \* SpecRefresh: what the last refresh changed
    loggedInEmployee,   \* SpecLogin: the employee handed to onLogin, if any
    loginScreen,        \* SpecLogin: the pin and error state of LoginScreen
    isLoading,      \* SpecClients: the isLoading state of each client's App
    local,          \* SpecClients: the employees and allEvents state of each client
    update,         \* SpecClients: the updateGlobalState each client has in flight
    poll,           \* SpecClients: what the poll of each client has read
    acks            \* SpecClients: the updates that have returned, oldest first

calcVars == <<input, shifts, details, calcDone>>

reportVars ==
    <<allEvents, startDate, endDate, selectedEmployeeId, filtered, summary,
      reported, csv>>

storeVars ==
    <<impl, employees, storedEvents, backupHistory, now, nextEventId,
      nextEmployeeId, opCount, response>>

refreshVars == <<delivered, appRenders, lastRefresh>>

loginVars == <<loggedInEmployee, loginScreen>>

clientVars == <<isLoading, local, update, poll, acks>>

uiVars == <<refreshVars, loginVars, clientVars>>

vars == <<calcVars, reportVars, storeVars, uiVars>>

-----------------------------------------------------------------------------
(* Bounds of the model *)

MaxLen == 4     \* longest event list handed to the pure functions
MaxTick == 2    \* timestamps are 0, Step, ..., MaxTick * Step
MaxEvents == 3  \* most events in the collection the report is computed from
MaxOps == 3     \* most requests a store handles in one behaviour
MaxRefreshes == 3   \* most changed collections the poll delivers to the dashboard
MaxUpdates == 2     \* most updates the clients start in one behaviour

(* Program constants *)

MS_PER_HOUR == 1000 * 60 * 60
NORMAL_WORK_MILLISECONDS == 8 * 60 * 60 * 1000
NORMAL_HOUR_RATE_CENTS == 815
EXTRA_HOUR_RATE_CENTS == 1630

Step == 12 * MS_PER_HOUR
TimeSet == {k * Step : k \in 0..MaxTick}

\* enum ClockType
Entrada == "Entrada"
InicioIntervalo == "InicioIntervalo"
FimIntervalo == "FimIntervalo"
Saida == "Saida"
ClockType == {Entrada, InicioIntervalo, FimIntervalo, Saida}

Min(a, b) == IF a < b THEN a ELSE b
Max(a, b) == IF a > b THEN a ELSE b

-----------------------------------------------------------------------------
(* Array.prototype.sort with the comparator a.timestamp - b.timestamp:     *)
(* a stable sort, ascending by timestamp.                                  *)

\* an insertion that puts the event before the events of its own timestamp
RECURSIVE InsertBeforeEqual(_, _)
InsertBeforeEqual(sorted, e) ==
    IF sorted = <<>> THEN <<e>>
    ELSE IF sorted[Len(sorted)].timestamp < e.timestamp THEN Append(sorted, e)
    ELSE Append(InsertBeforeEqual(SubSeq(sorted, 1, Len(sorted) - 1), e),
                sorted[Len(sorted)])

RECURSIVE InsertByTimestamp(_, _)
InsertByTimestamp(sorted, e) ==
    IF sorted = <<>> THEN <<e>>
    ELSE IF sorted[Len(sorted)].timestamp <= e.timestamp THEN Append(sorted, e)
    ELSE Append(InsertByTimestamp(SubSeq(sorted, 1, Len(sorted) - 1), e),
                sorted[Len(sorted)])

\* the list as it was given
SortNothing(events) == events

RECURSIVE SortByTimestamp(_)
SortByTimestamp(events) ==
    IF events = <<>> THEN <<>>
    ELSE InsertByTimestamp(SortByTimestamp(SubSeq(events, 1, Len(events) - 1)),
                           events[Len(events)])

-----------------------------------------------------------------------------
(* groupEventsByShifts *)

\* the body of the for loop: one event against the scan state
GroupStepNoClose(st, event) ==
    IF event.type = Entrada /\ ~st.shiftStarted
    THEN [st EXCEPT !.currentShift = <<event>>, !.shiftStarted = TRUE]
    ELSE IF st.shiftStarted
    THEN [st EXCEPT !.currentShift = Append(st.currentShift, event)]
    ELSE st

\* an Entry while a shift is open closes it and opens the next one
GroupStepSplitOnEntry(st, event) ==
    IF event.type = Entrada
    THEN [shifts |-> IF st.shiftStarted THEN Append(st.shifts, st.currentShift)
                     ELSE st.shifts,
          currentShift |-> <<event>>,
          shiftStarted |-> TRUE]
    ELSE IF st.shiftStarted
    THEN IF event.type = Saida
         THEN [shifts |-> Append(st.shifts, Append(st.currentShift, event)),
               currentShift |-> <<>>,
               shiftStarted |-> FALSE]
         ELSE [st EXCEPT !.currentShift = Append(st.currentShift, event)]
    ELSE st

GroupStep(st, event) ==
    IF event.type = Entrada /\ ~st.shiftStarted
    THEN [st EXCEPT !.currentShift = <<event>>, !.shiftStarted = TRUE]
    ELSE IF st.shiftStarted
    THEN IF event.type = Saida
         THEN [shifts |-> Append(st.shifts, Append(st.currentShift, event)),
               currentShift |-> <<>>,
               shiftStarted |-> FALSE]
         ELSE [st EXCEPT !.currentShift = Append(st.currentShift, event)]
    ELSE st

RECURSIVE GroupScan(_, _)
GroupScan(st, sorted) ==
    IF sorted = <<>> THEN st
    ELSE GroupScan(GroupStep(st, Head(sorted)), Tail(sorted))

GroupInit == [shifts |-> <<>>, currentShift |-> <<>>, shiftStarted |-> FALSE]

groupEventsByShiftsNoTrailing(events) ==
    GroupScan(GroupInit, SortByTimestamp(events)).shifts

\* the open shift put before the closed ones
groupEventsByShiftsOpenFirst(events) ==
    LET st == GroupScan(GroupInit, SortByTimestamp(events))
    IN  IF Len(st.currentShift) > 0
        THEN <<st.currentShift>> \o st.shifts
        ELSE st.shifts

groupEventsByShifts(events) ==
    LET st == GroupScan(GroupInit, SortByTimestamp(events))
    IN  IF Len(st.currentShift) > 0
        THEN Append(st.shifts, st.currentShift)
        ELSE st.shifts

-----------------------------------------------------------------------------
(* calculateWorkDetails *)

PayDen == MS_PER_HOUR \div 5

\* the payment rounded down to whole hundredths
PaymentWholeCents(ms, rateCents) ==
    [cents |-> (rateCents \div 5) * (ms \div PayDen)
                 + ((rateCents \div 5) * (ms % PayDen)) \div PayDen,
     frac |-> 0]

\* (ms / 3600000) * (rateCents / 100) currency units, exactly, in hundredths
Payment(ms, rateCents) ==
    LET k == rateCents \div 5
        q == ms \div PayDen
        r == ms % PayDen
    IN  [cents |-> k * q + (k * r) \div PayDen, frac |-> (k * r) % PayDen]

PayAdd(a, b) ==
    [cents |-> a.cents + b.cents + (a.frac + b.frac) \div PayDen,
     frac |-> (a.frac + b.frac) % PayDen]

PayZero == [cents |-> 0, frac |-> 0]

defaultPayment == [normal |-> PayZero, extra |-> PayZero, total |-> PayZero]

\* lastTime: number | null is <<>> for null and <<t>> for the number t;
\* `isWorking && lastTime` tests the truthiness of lastTime
Truthy(lastTime) == lastTime # <<>> /\ lastTime[1] # 0

WorkStep(st, event) ==
    LET currentTime == event.timestamp
        added == IF st.isWorking /\ Truthy(st.lastTime)
                 THEN st.totalMillis + (currentTime - st.lastTime[1])
                 ELSE st.totalMillis
    IN  [totalMillis |-> added,
         lastTime |-> <<currentTime>>,
         isWorking |-> IF event.type \in {Entrada, FimIntervalo} THEN TRUE
                       ELSE IF event.type \in {Saida, InicioIntervalo} THEN FALSE
                       ELSE st.isWorking]

RECURSIVE WorkScan(_, _)
WorkScan(st, sortedEvents) ==
    IF sortedEvents = <<>> THEN st
    ELSE WorkScan(WorkStep(st, Head(sortedEvents)), Tail(sortedEvents))

WorkInit == [totalMillis |-> 0, lastTime |-> <<>>, isWorking |-> FALSE]

ZeroDetails(status) ==
    [total |-> 0, normal |-> 0, extra |-> 0, payment |-> defaultPayment,
     status |-> status]

NormalOfTotal(totalMillis) == totalMillis

NormalOf(totalMillis) == Min(totalMillis, NORMAL_WORK_MILLISECONDS)

ExtraOf(totalMillis) == Max(0, totalMillis - NORMAL_WORK_MILLISECONDS)

CompleteDetails(totalMillis) ==
    LET normal == NormalOf(totalMillis)
        extra == ExtraOf(totalMillis)
        normalPayment == Payment(normal, NORMAL_HOUR_RATE_CENTS)
        extraPayment == Payment(extra, EXTRA_HOUR_RATE_CENTS)
    IN  [total |-> totalMillis, normal |-> normal, extra |-> extra,
         payment |-> [normal |-> normalPayment, extra |-> extraPayment,
                      total |-> PayAdd(normalPayment, extraPayment)],
         status |-> "complete"]

\* the chain of early returns after the scan
ClassifyExitFirst(hasEntry, hasExit, isWorking, totalMillis) ==
    IF isWorking \/ ~hasExit THEN ZeroDetails("incomplete")
    ELSE IF ~hasEntry THEN ZeroDetails("no_entry")
    ELSE IF totalMillis < 0 THEN ZeroDetails("error")
    ELSE CompleteDetails(totalMillis)

ClassifyWorkingAndNoExit(hasEntry, hasExit, isWorking, totalMillis) ==
    IF ~hasEntry THEN ZeroDetails("no_entry")
    ELSE IF isWorking /\ ~hasExit THEN ZeroDetails("incomplete")
    ELSE IF totalMillis < 0 THEN ZeroDetails("error")
    ELSE CompleteDetails(totalMillis)

Classify(hasEntry, hasExit, isWorking, totalMillis) ==
    IF ~hasEntry THEN ZeroDetails("no_entry")
    ELSE IF isWorking \/ ~hasExit THEN ZeroDetails("incomplete")
    ELSE IF totalMillis < 0 THEN ZeroDetails("error")
    ELSE CompleteDetails(totalMillis)

sortedEventsUnsorted(dailyEvents) == dailyEvents

sortedEventsOf(dailyEvents) == SortByTimestamp(dailyEvents)

calculateWorkDetails(dailyEvents) ==
    LET sortedEvents == sortedEventsOf(dailyEvents)
        st == WorkScan(WorkInit, sortedEvents)
        hasEntry == \E i \in 1..Len(sortedEvents) : sortedEvents[i].type = Entrada
        hasExit == \E i \in 1..Len(sortedEvents) : sortedEvents[i].type = Saida
    IN  Classify(hasEntry, hasExit, st.isWorking, st.totalMillis)

INITIAL_EMPLOYEES ==
    << [id |-> 1, name |-> "Ana Silva", pin |-> "1234", phone |-> "11987654321"],
       [id |-> 2, name |-> "Bruno Costa", pin |-> "5678", phone |-> "21987654321"],
       [id |-> 3, name |-> "Carla Dias", pin |-> "4321", phone |-> "31987654321"],
       [id |-> 4, name |-> "Daniel Alves", pin |-> "8765", phone |-> "41987654321"] >>

-----------------------------------------------------------------------------
(* filteredEvents and periodSummary of AdminDashboard *)

\* a date string 'YYYY-MM-DD' is the number of its day since 1970-01-01
DAY_MS == 24 * MS_PER_HOUR
StartOfDay(date) == date * DAY_MS                 \* `${date}T00:00:00.000Z`
\* the end of the day taken one millisecond early
EndOfDayExclusive(date) == date * DAY_MS + (DAY_MS - 2)

EndOfDay(date) == date * DAY_MS + (DAY_MS - 1)    \* `${date}T23:59:59.999Z`

\* the decimal strings of the employee ids, and parseInt on them
IdStrings == <<"1", "2", "3", "4">>
ParseInt(str) == CHOOSE i \in 1..Len(IdStrings) : IdStrings[i] = str

filteredEvents(all, start, end, selected) ==
    LET matches(event) ==
            /\ event.timestamp >= StartOfDay(start)
            /\ event.timestamp <= EndOfDay(end)
            /\ (selected = "all" \/ event.employeeId = ParseInt(selected))
    IN  SelectSeq(all, matches)

\* the keys of employeeGroups, in the order Object.values walks them
RECURSIVE AscendingIds(_)
AscendingIds(ids) ==
    IF ids = {} THEN <<>>
    ELSE LET least == CHOOSE i \in ids : \A j \in ids : i <= j
         IN  <<least>> \o AscendingIds(ids \ {least})

employeeGroupsMerged(events) == IF events = <<>> THEN <<>> ELSE <<events>>

\* employeeGroups: the events of each employee id, in their order in the list
employeeGroups(events) ==
    LET ids == AscendingIds({events[i].employeeId : i \in 1..Len(events)})
        of(id) == LET mine(event) == event.employeeId = id
                  IN  SelectSeq(events, mine)
    IN  [g \in 1..Len(ids) |-> of(ids[g])]

ZeroTotals == [totalNormal |-> 0, totalExtra |-> 0, totalPayment |-> PayZero]

\* the body of shifts.forEach: a complete shift is added to the totals
AddShift(totals, shiftEvents) ==
    LET det == calculateWorkDetails(shiftEvents)
    IN  IF det.status = "complete"
        THEN [totalNormal |-> totals.totalNormal + det.normal,
              totalExtra |-> totals.totalExtra + det.extra,
              totalPayment |-> PayAdd(totals.totalPayment, det.payment.total)]
        ELSE totals

RECURSIVE AddShifts(_, _)
AddShifts(totals, shiftList) ==
    IF shiftList = <<>> THEN totals
    ELSE AddShifts(AddShift(totals, Head(shiftList)), Tail(shiftList))

RECURSIVE AddGroups(_, _)
AddGroups(totals, groups) ==
    IF groups = <<>> THEN totals
    ELSE AddGroups(AddShifts(totals, groupEventsByShifts(Head(groups))),
                   Tail(groups))

\* formatMilliseconds: "Erro" for a negative time, else hours and minutes
formatMilliseconds(totalMillis) ==
    IF totalMillis < 0
    THEN [erro |-> TRUE, hours |-> 0, minutes |-> 0]
    ELSE [erro |-> FALSE,
          hours |-> totalMillis \div MS_PER_HOUR,
          minutes |-> (totalMillis % MS_PER_HOUR) \div (1000 * 60)]

\* formatCurrency: the amount in whole hundredths, halves rounded up
formatCurrency(pay) == pay.cents + (IF 2 * pay.frac >= PayDen THEN 1 ELSE 0)

periodSummary(events) ==
    LET totals == AddGroups(ZeroTotals, employeeGroups(events))
    IN  [totalNormal |-> totals.totalNormal,
         totalExtra |-> totals.totalExtra,
         totalPayment |-> totals.totalPayment,
         normalHours |-> formatMilliseconds(totals.totalNormal),
         extraHours |-> formatMilliseconds(totals.totalExtra),
         totalHours |-> formatMilliseconds(totals.totalNormal + totals.totalExtra),
         payment |-> formatCurrency(totals.totalPayment)]

-----------------------------------------------------------------------------
(* handleExportCSV of AdminDashboard *)

\* formatBrasiliaTime: getUTCHours, getUTCMinutes and getUTCSeconds
formatBrasiliaTime(timestamp) ==
    [hours |-> (timestamp % DAY_MS) \div MS_PER_HOUR,
     minutes |-> (timestamp % MS_PER_HOUR) \div 60000,
     seconds |-> (timestamp % 60000) \div 1000]

\* dateKey: the UTC date of the event, as the number of its day
dateKey(event) == event.timestamp \div DAY_MS

\* a.localeCompare(b) on the names of INITIAL_EMPLOYEES, which are listed in
\* alphabetical order: the position of the name in that list
NameRank(name) ==
    CHOOSE i \in 1..Len(INITIAL_EMPLOYEES) : INITIAL_EMPLOYEES[i].name = name

RECURSIVE GroupsInRankOrder(_, _)
GroupsInRankOrder(groups, ranks) ==
    IF ranks = <<>> THEN <<>>
    ELSE LET ranked(g) == NameRank(g[1].employeeName) = Head(ranks)
         IN  SelectSeq(groups, ranked) \o GroupsInRankOrder(groups, Tail(ranks))

\* Object.entries(employeeGroups).sort(by the employeeName of the first event)
sortedEmployees(groups) ==
    GroupsInRankOrder(groups,
        AscendingIds({NameRank(groups[g][1].employeeName) : g \in 1..Len(groups)}))

\* eventsByDate in the order of sortedDates
eventsByDate(empEvents) ==
    LET keys == AscendingIds({dateKey(empEvents[i]) : i \in 1..Len(empEvents)})
        of(key) == LET onDay(event) == dateKey(event) = key
                   IN  SelectSeq(empEvents, onDay)
    IN  [d \in 1..Len(keys) |-> of(keys[d])]

\* dayEvents.forEach: each event of the type overwrites the cell, so the cell
\* holds the time of the last one; <<>> is the empty cell
RECURSIVE Cell(_, _, _)
Cell(dayEvents, type, time) ==
    IF dayEvents = <<>> THEN time
    ELSE Cell(Tail(dayEvents), type,
              IF Head(dayEvents).type = type
              THEN <<formatBrasiliaTime(Head(dayEvents).timestamp)>>
              ELSE time)

\* one line of the table of an employee: a date and its cells
DayRow(dayEvents) ==
    LET day == AddShifts(ZeroTotals, groupEventsByShifts(dayEvents))
    IN  [employeeId |-> dayEvents[1].employeeId,
         date |-> dateKey(dayEvents[1]),
         entrada |-> Cell(dayEvents, Entrada, <<>>),
         inicioIntervalo |-> Cell(dayEvents, InicioIntervalo, <<>>),
         fimIntervalo |-> Cell(dayEvents, FimIntervalo, <<>>),
         saida |-> Cell(dayEvents, Saida, <<>>),
         normalHours |-> formatMilliseconds(day.totalNormal),
         extraHours |-> formatMilliseconds(day.totalExtra),
         totalHours |-> formatMilliseconds(day.totalNormal + day.totalExtra),
         payment |-> formatCurrency(day.totalPayment)]

\* the totals of a list of event lists, each split into shifts on its own
RECURSIVE AddDays(_, _)
AddDays(totals, days) ==
    IF days = <<>> THEN totals
    ELSE AddDays(AddShifts(totals, groupEventsByShifts(Head(days))), Tail(days))

TotalsRow(totals) ==
    [normalHours |-> formatMilliseconds(totals.totalNormal),
     extraHours |-> formatMilliseconds(totals.totalExtra),
     totalHours |-> formatMilliseconds(totals.totalNormal + totals.totalExtra),
     payment |-> formatCurrency(totals.totalPayment)]

RECURSIVE Flatten(_)
Flatten(lists) == IF lists = <<>> THEN <<>> ELSE Head(lists) \o Flatten(Tail(lists))

NoCsv == [exported |-> FALSE, alert |-> FALSE, rows |-> <<>>, subtotals |-> <<>>,
          total |-> TotalsRow(ZeroTotals)]

\* the content of the file: the day rows and the subtotal of each employee,
\* and the grand total
csvContent(events) ==
    LET groups == sortedEmployees(employeeGroups(events))
        days == [g \in 1..Len(groups) |-> eventsByDate(groups[g])]
    IN  [exported |-> TRUE,
         alert |-> FALSE,
         rows |-> Flatten([g \in 1..Len(groups) |->
                     [d \in 1..Len(days[g]) |-> DayRow(days[g][d])]]),
         subtotals |-> [g \in 1..Len(groups) |->
                           TotalsRow(AddDays(ZeroTotals, days[g]))],
         total |-> TotalsRow(AddDays(ZeroTotals, Flatten(days)))]

-----------------------------------------------------------------------------
(* SpecReport: the period summary of every bounded event collection, date  *)
(* range and employee filter.  The collection is in timestamp order, as    *)
(* the stores deliver it.                                                  *)

ReportEmployees == {1, 2}
DateSet == 0..((MaxTick * Step) \div DAY_MS)
EmployeeFilters == {"all"} \cup {IdStrings[i] : i \in ReportEmployees}

\* the times of the loaded events: the instants of TimeSet and the last
\* millisecond of the first day
ReportTimes == TimeSet \cup {DAY_MS - 1}

\* the store delivers one more event, at or after the last one's time
LoadEvent(employeeId, type, timestamp) ==
    /\ ~reported
    /\ Len(allEvents) < MaxEvents
    /\ IF allEvents = <<>> THEN TRUE
       ELSE allEvents[Len(allEvents)].timestamp <= timestamp
    /\ allEvents' = Append(allEvents,
                           [id |-> Len(allEvents) + 1, employeeId |-> employeeId,
                            employeeName |-> INITIAL_EMPLOYEES[employeeId].name,
                            type |-> type, timestamp |-> timestamp])
    /\ UNCHANGED <<startDate, endDate, selectedEmployeeId, filtered, summary,
                   reported, csv>>
    /\ UNCHANGED <<calcVars, storeVars, uiVars>>

\* collections of events of the first days, in timestamp order
TimeOn(day, hour) == day * DAY_MS + hour * MS_PER_HOUR

Collection(punches) ==
    [i \in 1..Len(punches) |->
        [id |-> i, employeeId |-> punches[i][1],
         employeeName |-> INITIAL_EMPLOYEES[punches[i][1]].name,
         type |-> punches[i][2], timestamp |-> punches[i][3]]]

TwoShiftsOneDay ==
    Collection(<< <<1, Entrada, TimeOn(0, 6)>>, <<1, Saida, TimeOn(0, 12)>>,
                  <<1, Entrada, TimeOn(0, 13)>>, <<1, Saida, TimeOn(0, 19)>> >>)

TwoEmployeesTwoDays ==
    Collection(<< <<2, Entrada, TimeOn(0, 8)>>, <<1, Entrada, TimeOn(0, 9)>>,
                  <<2, InicioIntervalo, TimeOn(0, 12)>>,
                  <<2, FimIntervalo, TimeOn(0, 13)>>, <<2, Saida, TimeOn(0, 19)>>,
                  <<1, Saida, TimeOn(1, 2)>>, <<1, Entrada, TimeOn(1, 10)>>,
                  <<1, Saida, TimeOn(1, 15)>> >>)

ExampleCollections == {TwoShiftsOneDay, TwoEmployeesTwoDays}

\* the store delivers one of the example collections
LoadExample(example) ==
    /\ ~reported
    /\ allEvents = <<>>
    /\ allEvents' = example
    /\ UNCHANGED <<startDate, endDate, selectedEmployeeId, filtered, summary,
                   reported, csv>>
    /\ UNCHANGED <<calcVars, storeVars, uiVars>>

\* the admin picks the period and the employee; the filtered events and the
\* summary are computed
Report(start, end, selected) ==
    /\ ~reported
    /\ startDate' = start
    /\ endDate' = end
    /\ selectedEmployeeId' = selected
    /\ filtered' = filteredEvents(allEvents, start, end, selected)
    /\ summary' = periodSummary(filteredEvents(allEvents, start, end, selected))
    /\ reported' = TRUE
    /\ UNCHANGED <<allEvents, csv, calcVars, storeVars, uiVars>>

\* the admin exports the report of the chosen period
handleExportCSV ==
    /\ reported
    /\ ~csv.exported
    /\ csv' = IF Len(filtered) = 0
              THEN [NoCsv EXCEPT !.exported = TRUE, !.alert = TRUE]
              ELSE csvContent(filtered)
    /\ UNCHANGED <<allEvents, startDate, endDate, selectedEmployeeId, filtered,
                   summary, reported>>
    /\ UNCHANGED <<calcVars, storeVars, uiVars>>

ReportNext ==
    \/ \E employeeId \in ReportEmployees, type \in ClockType,
          timestamp \in ReportTimes :
          LoadEvent(employeeId, type, timestamp)
    \/ \E example \in ExampleCollections : LoadExample(example)
    \/ \E start \in DateSet, end \in DateSet, selected \in EmployeeFilters :
          Report(start, end, selected)
    \/ handleExportCSV


-----------------------------------------------------------------------------
(* The event store.  Three implementations keep the same collections: the  *)
(* global state written by App.tsx ("app"), the Postgres handler ("pg")    *)
(* and the KV handler ("kv").  Every handler is one atomic step here.      *)

MAX_BACKUP_ENTRIES == 10

Impls == {"app", "pg", "kv"}

\* employees.find(e => e.id === id): <<>> when there is none
FindEmployee(list, id) ==
    LET at == {i \in 1..Len(list) : list[i].id = id}
    IN  IF at = {} THEN <<>> ELSE <<list[CHOOSE i \in at : \A j \in at : i <= j]>>

Take(list, n) == SubSeq(list, 1, Min(n, Len(list)))

EventIds == {storedEvents[i].id : i \in 1..Len(storedEvents)}

\* JSON.parse of the stored events: a falsy id is replaced by Date.now();
\* the ISO string of a timestamp parses back to the same millisecond
ReadEvents(stored) ==
    [i \in 1..Len(stored) |->
        IF stored[i].id = 0 THEN [stored[i] EXCEPT !.id = now] ELSE stored[i]]

Answer(op, employeeId, type, timestamp, ok, status, error) ==
    [op |-> op, employeeId |-> employeeId, type |-> type, timestamp |-> timestamp,
     complete |-> TRUE, ok |-> ok, status |-> status, error |-> error]

Handled(answer) ==
    /\ opCount < MaxOps
    /\ opCount' = opCount + 1
    /\ response' = answer
    /\ UNCHANGED <<impl, now, calcVars, reportVars, uiVars>>

\* updateGlobalState, after an updater that returned a new state: write the
\* collections and put a snapshot at the head of the backup history
WriteGlobalState(updatedEmployees, updatedEvents) ==
    /\ employees' = updatedEmployees
    /\ storedEvents' = updatedEvents
    /\ backupHistory' =
          Take(<<[timestamp |-> now,
                  state |-> [employees |-> updatedEmployees,
                             events |-> updatedEvents]]>> \o backupHistory,
               MAX_BACKUP_ENTRIES)
    /\ UNCHANGED <<nextEventId, nextEmployeeId>>

\* updateGlobalState, after an updater that returned false
CancelUpdate == UNCHANGED <<employees, storedEvents, backupHistory, nextEventId,
               nextEmployeeId>>

\* handleAddEvent: the kiosk punch of the logged-in employee
handleAddEvent(employeeId, type) ==
    /\ impl = "app"
    /\ FindEmployee(employees, employeeId) # <<>>
    /\ LET loggedIn == FindEmployee(employees, employeeId)[1]
           newEvent == [id |-> now, employeeId |-> loggedIn.id,
                        employeeName |-> loggedIn.name,
                        type |-> type, timestamp |-> now]
       IN  WriteGlobalState(employees,
                            SortByTimestamp(Append(ReadEvents(storedEvents), newEvent)))
    /\ Handled(Answer("handleAddEvent", employeeId, type, now, TRUE, 0, ""))

isDuplicateByReference(list, employeeId, type, timestamp) == FALSE

\* the duplicate test of handleAddManualEvent
isDuplicate(list, employeeId, type, timestamp) ==
    \E i \in 1..Len(list) :
        /\ list[i].employeeId = employeeId
        /\ list[i].type = type
        /\ list[i].timestamp = timestamp

\* handleAddManualEvent: false when the employee is unknown or the event is a
\* duplicate, true once the event is stored
handleAddManualEvent(employeeId, type, timestamp) ==
    /\ impl = "app"
    /\ LET found == FindEmployee(employees, employeeId)
           op == "handleAddManualEvent"
       IN  IF found = <<>>
           THEN /\ CancelUpdate
                /\ Handled(Answer(op, employeeId, type, timestamp, FALSE, 0,
                                  "not found"))
           ELSE IF isDuplicate(ReadEvents(storedEvents), employeeId, type, timestamp)
           THEN /\ CancelUpdate
                /\ Handled(Answer(op, employeeId, type, timestamp, FALSE, 0,
                                  "duplicate"))
           ELSE /\ WriteGlobalState(employees,
                      SortByTimestamp(Append(ReadEvents(storedEvents),
                          [id |-> now, employeeId |-> found[1].id,
                           employeeName |-> found[1].name,
                           type |-> type, timestamp |-> timestamp])))
                /\ Handled(Answer(op, employeeId, type, timestamp, TRUE, 0, ""))

handleDeleteEvent(eventId) ==
    /\ impl = "app"
    /\ LET current == ReadEvents(storedEvents)
           keep(event) == event.id # eventId
       IN  WriteGlobalState(employees, SelectSeq(current, keep))
    /\ Handled(Answer("handleDeleteEvent", 0, "", 0, TRUE, 0, ""))

handleUpdateEvent(eventId, newTimestamp) ==
    /\ impl = "app"
    /\ LET current == ReadEvents(storedEvents)
           updated == [i \in 1..Len(current) |->
                          IF current[i].id = eventId
                          THEN [current[i] EXCEPT !.timestamp = newTimestamp]
                          ELSE current[i]]
       IN  WriteGlobalState(employees, SortByTimestamp(updated))
    /\ Handled(Answer("handleUpdateEvent", 0, "", newTimestamp, TRUE, 0, ""))

\* handleRestoreFromHistory -> restoreState: the state of a backup entry
handleRestoreFromHistory(entry) ==
    /\ impl = "app"
    /\ entry \in 1..Len(backupHistory)
    /\ WriteGlobalState(backupHistory[entry].state.employees,
                        backupHistory[entry].state.events)
    /\ Handled(Answer("handleRestoreFromHistory", 0, "", 0, TRUE, 0, ""))

-----------------------------------------------------------------------------
(* The Postgres handler of /api/events *)

StoreOnlyEvents(updatedEvents) ==
    /\ storedEvents' = updatedEvents
    /\ UNCHANGED <<employees, backupHistory>>

StoreUntouched == UNCHANGED <<employees, storedEvents, backupHistory, nextEventId,
               nextEmployeeId>>

\* SELECT id FROM events WHERE employee_id = .. AND type = .. AND timestamp = ..
pgExisting(employeeId, type, timestamp) ==
    {i \in 1..Len(storedEvents) :
        /\ storedEvents[i].employeeId = employeeId
        /\ storedEvents[i].type = type
        /\ storedEvents[i].timestamp = timestamp}

\* POST: employeeId 0 and employeeName "" stand for a body without the field
pgPostEvent(employeeId, employeeName, type, timestamp) ==
    /\ impl = "pg"
    /\ LET op == "POST"
       IN  IF employeeId = 0 \/ employeeName = ""
           THEN /\ StoreUntouched
                /\ Handled([Answer(op, employeeId, type, timestamp, FALSE, 400,
                                   "Campos obrigatorios")
                               EXCEPT !.complete = FALSE])
           ELSE IF pgExisting(employeeId, type, timestamp) # {}
           THEN /\ StoreUntouched
                /\ Handled(Answer(op, employeeId, type, timestamp, FALSE, 400,
                                  "Evento duplicado"))
           ELSE /\ StoreOnlyEvents(Append(storedEvents,
                      [id |-> nextEventId, employeeId |-> employeeId,
                       employeeName |-> employeeName,
                       type |-> type, timestamp |-> timestamp]))
                /\ nextEventId' = nextEventId + 1
                /\ UNCHANGED nextEmployeeId
                /\ Handled(Answer(op, employeeId, type, timestamp, TRUE, 201, ""))

\* PUT: timestamp and type are <<>> when absent from the body, else <<value>>
pgPutEvent(id, timestamp, type) ==
    /\ impl = "pg"
    /\ LET op == "PUT"
           hit == {i \in 1..Len(storedEvents) : storedEvents[i].id = id}
           set(event) ==
               [event EXCEPT
                   !.timestamp = IF timestamp = <<>> THEN @ ELSE timestamp[1],
                   !.type = IF type = <<>> THEN @ ELSE type[1]]
       IN  IF timestamp = <<>> /\ type = <<>>
           THEN /\ StoreUntouched
                /\ Handled(Answer(op, 0, "", 0, FALSE, 400,
                                  "Nenhum campo para atualizar"))
           ELSE IF hit = {}
           THEN /\ StoreUntouched
                /\ Handled(Answer(op, 0, "", 0, FALSE, 404,
                                  "Evento nao encontrado"))
           ELSE /\ StoreOnlyEvents([i \in 1..Len(storedEvents) |->
                      IF i \in hit THEN set(storedEvents[i]) ELSE storedEvents[i]])
                /\ UNCHANGED <<nextEventId, nextEmployeeId>>
                /\ Handled(Answer(op, 0, "", 0, TRUE, 200, ""))

pgDeleteEvent(id) ==
    /\ impl = "pg"
    /\ LET op == "DELETE"
           keep(event) == event.id # id
       IN  IF \A i \in 1..Len(storedEvents) : storedEvents[i].id # id
           THEN /\ StoreUntouched
                /\ Handled(Answer(op, 0, "", 0, FALSE, 404,
                                  "Evento nao encontrado"))
           ELSE /\ StoreOnlyEvents(SelectSeq(storedEvents, keep))
                /\ UNCHANGED <<nextEventId, nextEmployeeId>>
                /\ Handled(Answer(op, 0, "", 0, TRUE, 200, ""))

-----------------------------------------------------------------------------
(* The KV handler of /api/events *)

\* POST: the body carries no id, so the id is Date.now()
kvPostEvent(employeeId, employeeName, type, timestamp) ==
    /\ impl = "kv"
    /\ LET op == "POST"
           eventWithId == [id |-> now, employeeId |-> employeeId,
                           employeeName |-> employeeName,
                           type |-> type, timestamp |-> timestamp]
           kvIsDuplicate ==
               \E i \in 1..Len(storedEvents) :
                   /\ storedEvents[i].employeeId = eventWithId.employeeId
                   /\ storedEvents[i].type = eventWithId.type
                   /\ storedEvents[i].timestamp = eventWithId.timestamp
       IN  IF kvIsDuplicate
           THEN /\ StoreUntouched
                /\ Handled(Answer(op, employeeId, type, timestamp, FALSE, 400,
                                  "Evento duplicado"))
           ELSE /\ StoreOnlyEvents(SortByTimestamp(Append(storedEvents, eventWithId)))
                /\ UNCHANGED <<nextEventId, nextEmployeeId>>
                /\ Handled(Answer(op, employeeId, type, timestamp, TRUE, 201, ""))

kvPutEvent(id, timestamp) ==
    /\ impl = "kv"
    /\ StoreOnlyEvents(SortByTimestamp(
          [i \in 1..Len(storedEvents) |->
              IF storedEvents[i].id = id
              THEN [storedEvents[i] EXCEPT !.timestamp = timestamp]
              ELSE storedEvents[i]]))
    /\ UNCHANGED <<nextEventId, nextEmployeeId>>
    /\ Handled(Answer("PUT", 0, "", 0, TRUE, 200, ""))

kvDeleteEvent(id) ==
    /\ impl = "kv"
    /\ LET keep(event) == event.id # id
       IN  StoreOnlyEvents(SelectSeq(storedEvents, keep))
    /\ UNCHANGED <<nextEventId, nextEmployeeId>>
    /\ Handled(Answer("DELETE", 0, "", 0, TRUE, 200, ""))

-----------------------------------------------------------------------------
(* The employees: the handlers of App.tsx, the Postgres handler and the KV *)
(* handler of /api/employees                                               *)

ADMIN_USER == [id |-> 999, name |-> "Administrador", pin |-> "7531", phone |-> ""]

\* list.length > 0 ? Math.max(...list.map(e => e.id)) + 1 : 1
NewId(list) ==
    IF Len(list) > 0
    THEN (CHOOSE m \in {list[i].id : i \in 1..Len(list)} :
              \A i \in 1..Len(list) : list[i].id <= m) + 1
    ELSE 1

WithId(employee, id) ==
    [id |-> id, name |-> employee.name, pin |-> employee.pin,
     phone |-> employee.phone]

WithoutEmployee(list, employeeId) ==
    LET keep(e) == e.id # employeeId IN SelectSeq(list, keep)

WithoutEventsOf(list, employeeId) ==
    LET keep(event) == event.employeeId # employeeId IN SelectSeq(list, keep)

\* every record becomes the updated one
ReplacedEverywhere(list, updated) == [i \in 1..Len(list) |-> updated]

\* list.map(emp => emp.id === updated.id ? updated : emp)
Replaced(list, updated) ==
    [i \in 1..Len(list) |-> IF list[i].id = updated.id THEN updated ELSE list[i]]

handleAddEmployee(newEmployee) ==
    /\ impl = "app"
    /\ WriteGlobalState(Append(employees, WithId(newEmployee, NewId(employees))),
                        ReadEvents(storedEvents))
    /\ Handled(Answer("handleAddEmployee", NewId(employees), "", 0, TRUE, 0, ""))

handleDeleteEmployee(employeeId) ==
    /\ impl = "app"
    /\ WriteGlobalState(WithoutEmployee(employees, employeeId),
                        WithoutEventsOf(ReadEvents(storedEvents), employeeId))
    /\ Handled(Answer("handleDeleteEmployee", employeeId, "", 0, TRUE, 0, ""))

handleUpdateEmployee(updatedEmployee) ==
    /\ impl = "app"
    /\ WriteGlobalState(Replaced(employees, updatedEmployee),
                        ReadEvents(storedEvents))
    /\ Handled(Answer("handleUpdateEmployee", updatedEmployee.id, "", 0, TRUE, 0,
                      ""))

\* employeesToImport.forEach: an employee with the PIN is updated (name and
\* phone), any other one is added under the next id
RECURSIVE ImportAll(_, _, _)
ImportAll(currentEmployees, nextId, toImport) ==
    IF toImport = <<>> THEN currentEmployees
    ELSE LET importedEmp == Head(toImport)
             found == {i \in 1..Len(currentEmployees) :
                          currentEmployees[i].pin = importedEmp.pin}
         IN  IF found # {}
             THEN LET existingEmployeeIndex ==
                          CHOOSE i \in found : \A j \in found : i <= j
                  IN  ImportAll([currentEmployees EXCEPT
                                    ![existingEmployeeIndex].name = importedEmp.name,
                                    ![existingEmployeeIndex].phone = importedEmp.phone],
                                nextId, Tail(toImport))
             ELSE ImportAll(Append(currentEmployees, WithId(importedEmp, nextId)),
                            nextId + 1, Tail(toImport))

handleImportEmployees(employeesToImport) ==
    /\ impl = "app"
    /\ LET op == "handleImportEmployees"
           pinsInFile == [i \in 1..Len(employeesToImport) |-> employeesToImport[i].pin]
           uniquePinsInFile == {pinsInFile[i] : i \in 1..Len(pinsInFile)}
       IN  IF \/ Len(pinsInFile) # Cardinality(uniquePinsInFile)
              \/ ADMIN_USER.pin \in uniquePinsInFile
           THEN /\ CancelUpdate
                /\ Handled(Answer(op, 0, "", 0, FALSE, 0, "errors"))
           ELSE /\ WriteGlobalState(
                      ImportAll(employees, NewId(employees), employeesToImport),
                      ReadEvents(storedEvents))
                /\ Handled(Answer(op, 0, "", 0, TRUE, 0, ""))

StoreOnlyEmployees(updatedEmployees) ==
    /\ employees' = updatedEmployees
    /\ UNCHANGED <<storedEvents, backupHistory, nextEventId>>

\* SELECT id FROM employees WHERE pin = ..
pgPinHolders(pin) == {employees[i].id : i \in {j \in 1..Len(employees) :
                                                 employees[j].pin = pin}}

\* POST /api/employees (Postgres): "" stands for a field the body lacks
pgPostEmployee(newEmployee) ==
    /\ impl = "pg"
    /\ LET op == "POST employee"
       IN  IF newEmployee.name = "" \/ newEmployee.pin = "" \/ newEmployee.phone = ""
           THEN /\ StoreUntouched
                /\ Handled(Answer(op, 0, "", 0, FALSE, 400, "Campos obrigatorios"))
           ELSE IF pgPinHolders(newEmployee.pin) # {}
           THEN /\ StoreUntouched
                /\ Handled(Answer(op, 0, "", 0, FALSE, 400, "PIN ja cadastrado"))
           ELSE /\ StoreOnlyEmployees(
                      Append(employees, WithId(newEmployee, nextEmployeeId)))
                /\ nextEmployeeId' = nextEmployeeId + 1
                /\ Handled(Answer(op, nextEmployeeId, "", 0, TRUE, 201, ""))

\* PUT /api/employees (Postgres)
pgPutEmployee(updatedEmployee) ==
    /\ impl = "pg"
    /\ LET op == "PUT employee"
           id == updatedEmployee.id
       IN  IF \/ id = 0 \/ updatedEmployee.name = ""
              \/ updatedEmployee.pin = "" \/ updatedEmployee.phone = ""
           THEN /\ StoreUntouched
                /\ Handled(Answer(op, id, "", 0, FALSE, 400, "Campos obrigatorios"))
           ELSE IF pgPinHolders(updatedEmployee.pin) \ {id} # {}
           THEN /\ StoreUntouched
                /\ Handled(Answer(op, id, "", 0, FALSE, 400,
                                  "PIN ja cadastrado para outro funcionario"))
           ELSE IF \A i \in 1..Len(employees) : employees[i].id # id
           THEN /\ StoreUntouched
                /\ Handled(Answer(op, id, "", 0, FALSE, 404,
                                  "Funcionario nao encontrado"))
           ELSE /\ StoreOnlyEmployees(Replaced(employees, updatedEmployee))
                /\ UNCHANGED nextEmployeeId
                /\ Handled(Answer(op, id, "", 0, TRUE, 200, ""))

\* DELETE /api/employees (Postgres): the events of the id are deleted first,
\* then the employee; 404 when there was no such employee
pgDeleteEmployee(id) ==
    /\ impl = "pg"
    /\ LET op == "DELETE employee"
       IN  IF id = 0
           THEN /\ StoreUntouched
                /\ Handled(Answer(op, id, "", 0, FALSE, 400, "ID e obrigatorio"))
           ELSE /\ storedEvents' = WithoutEventsOf(storedEvents, id)
                /\ employees' = WithoutEmployee(employees, id)
                /\ UNCHANGED <<backupHistory, nextEventId, nextEmployeeId>>
                /\ IF \A i \in 1..Len(employees) : employees[i].id # id
                   THEN Handled(Answer(op, id, "", 0, FALSE, 404,
                                       "Funcionario nao encontrado"))
                   ELSE Handled(Answer(op, id, "", 0, TRUE, 200, ""))

\* POST /api/employees (KV)
kvPostEmployee(newEmployee) ==
    /\ impl = "kv"
    /\ StoreOnlyEmployees(Append(employees, WithId(newEmployee, NewId(employees))))
    /\ UNCHANGED nextEmployeeId
    /\ Handled(Answer("POST employee", NewId(employees), "", 0, TRUE, 201, ""))

\* PUT /api/employees (KV)
kvPutEmployee(updatedEmployee) ==
    /\ impl = "kv"
    /\ StoreOnlyEmployees(Replaced(employees, updatedEmployee))
    /\ UNCHANGED nextEmployeeId
    /\ Handled(Answer("PUT employee", updatedEmployee.id, "", 0, TRUE, 200, ""))

\* DELETE /api/employees (KV): only the employees key is written
kvDeleteEmployee(id) ==
    /\ impl = "kv"
    /\ StoreOnlyEmployees(WithoutEmployee(employees, id))
    /\ UNCHANGED nextEmployeeId
    /\ Handled(Answer("DELETE employee", id, "", 0, TRUE, 200, ""))

-----------------------------------------------------------------------------
(* Spec: one store implementation under every bounded run of requests *)

StoreEmployees == {1, 2}
UnknownEmployee == Len(INITIAL_EMPLOYEES) + 1
StoreTypes == {Entrada, Saida}
Optional(values) == {<<>>} \cup {<<v>> : v \in values}

\* the PINs of the requests: one an employee holds, the reserved one of the
\* administrator, and one that nobody holds
PinSet == {INITIAL_EMPLOYEES[1].pin, ADMIN_USER.pin, "9999"}
NewEmployees == {[name |-> "Eva Lima", pin |-> pin, phone |-> "51987654321"] :
                    pin \in PinSet}
\* an employee of the list as the edit form submits it, with this PIN and,
\* when renamed, under another name
Edited(id, renamed, pin) ==
    LET found == FindEmployee(employees, id)
    IN  IF found = <<>>
        THEN [id |-> id, name |-> "Eva Lima", pin |-> pin, phone |-> "51987654321"]
        ELSE [found[1] EXCEPT !.pin = pin,
                              !.name = IF renamed THEN "Ana Souza" ELSE @]
ImportFiles == {<<e>> : e \in NewEmployees} \cup
               {<<a, b>> : a \in NewEmployees, b \in NewEmployees}

NoResponse == Answer("", 0, "", 0, TRUE, 0, "")

\* time passes
Tick ==
    /\ now < MaxTick * Step
    /\ now' = now + Step
    /\ UNCHANGED <<impl, employees, storedEvents, backupHistory, nextEventId,
                   nextEmployeeId, opCount, response, calcVars, reportVars,
                   uiVars>>

NameOf(employeeId) ==
    IF employeeId = 0 THEN "" ELSE INITIAL_EMPLOYEES[employeeId].name

Next ==
    \/ Tick
    \/ \E employeeId \in StoreEmployees, type \in StoreTypes :
          handleAddEvent(employeeId, type)
    \/ \E employeeId \in StoreEmployees \cup {UnknownEmployee},
          type \in StoreTypes, timestamp \in TimeSet :
          handleAddManualEvent(employeeId, type, timestamp)
    \/ \E eventId \in EventIds : handleDeleteEvent(eventId)
    \/ \E eventId \in EventIds, timestamp \in TimeSet :
          handleUpdateEvent(eventId, timestamp)
    \/ \E entry \in 1..Len(backupHistory) : handleRestoreFromHistory(entry)
    \/ \E employeeId \in StoreEmployees \cup {0}, withName \in BOOLEAN,
          type \in StoreTypes, timestamp \in TimeSet :
          pgPostEvent(employeeId, IF withName THEN NameOf(employeeId) ELSE "",
                      type, timestamp)
    \/ \E employeeId \in StoreEmployees, type \in StoreTypes, timestamp \in TimeSet :
          kvPostEvent(employeeId, NameOf(employeeId), type, timestamp)
    \/ \E id \in EventIds \cup {nextEventId},
          timestamp \in Optional(TimeSet), type \in Optional(StoreTypes) :
          pgPutEvent(id, timestamp, type)
    \/ \E id \in EventIds \cup {nextEventId} : pgDeleteEvent(id)
    \/ \E id \in EventIds, timestamp \in TimeSet : kvPutEvent(id, timestamp)
    \/ \E id \in EventIds : kvDeleteEvent(id)
    \/ \E newEmployee \in NewEmployees : handleAddEmployee(newEmployee)
    \/ \E employeeId \in StoreEmployees : handleDeleteEmployee(employeeId)
    \/ \E employeeId \in StoreEmployees, renamed \in BOOLEAN, pin \in PinSet :
          handleUpdateEmployee(Edited(employeeId, renamed, pin))
    \/ \E file \in ImportFiles : handleImportEmployees(file)
    \/ \E newEmployee \in NewEmployees, withPhone \in BOOLEAN :
          pgPostEmployee(IF withPhone THEN newEmployee
                         ELSE [newEmployee EXCEPT !.phone = ""])
    \/ \E employeeId \in StoreEmployees \cup {0, UnknownEmployee},
          renamed \in BOOLEAN, pin \in PinSet :
          pgPutEmployee(Edited(employeeId, renamed, pin))
    \/ \E employeeId \in StoreEmployees \cup {0, UnknownEmployee} :
          pgDeleteEmployee(employeeId)
    \/ \E newEmployee \in NewEmployees : kvPostEmployee(newEmployee)
    \/ \E employeeId \in StoreEmployees, renamed \in BOOLEAN, pin \in PinSet :
          kvPutEmployee(Edited(employeeId, renamed, pin))
    \/ \E employeeId \in StoreEmployees : kvDeleteEmployee(employeeId)

-----------------------------------------------------------------------------
(* SpecCalc: the two pure functions applied to every bounded event list.   *)
(* The events of an input list carry their position as id.                 *)

NoDetails == ZeroDetails("none")

\* one more event of the employee, of any type and at any time, in any order
AddInput(type, timestamp) ==
    /\ ~calcDone
    /\ Len(input) < MaxLen
    /\ input' = Append(input, [id |-> Len(input) + 1, employeeId |-> 1,
                               type |-> type, timestamp |-> timestamp])
    /\ UNCHANGED <<shifts, details, calcDone>>
    /\ UNCHANGED <<reportVars, storeVars, uiVars>>

\* apply groupEventsByShifts and calculateWorkDetails to the list
Calculate ==
    /\ ~calcDone
    /\ shifts' = groupEventsByShifts(input)
    /\ details' = calculateWorkDetails(input)
    /\ calcDone' = TRUE
    /\ UNCHANGED input
    /\ UNCHANGED <<reportVars, storeVars, uiVars>>

\* lists of one employee's events at times of the day
At(day, hour, minute) == day * 24 * MS_PER_HOUR + hour * MS_PER_HOUR + minute * 60000

EventsOf(punches) ==
    [i \in 1..Len(punches) |->
        [id |-> i, employeeId |-> 1, type |-> punches[i][1],
         timestamp |-> punches[i][2]]]

WorkdayWithBreak ==
    EventsOf(<< <<Entrada, At(1, 8, 0)>>, <<InicioIntervalo, At(1, 12, 0)>>,
                <<FimIntervalo, At(1, 13, 0)>>, <<Saida, At(1, 19, 0)>> >>)

WorkdayThenOpenShift ==
    EventsOf(<< <<Entrada, At(1, 8, 0)>>, <<Saida, At(1, 17, 0)>>,
                <<Entrada, At(2, 9, 0)>> >>)

SevenMinutes ==
    EventsOf(<< <<Entrada, At(1, 8, 0)>>, <<Saida, At(1, 8, 7)>> >>)

LongDay ==
    EventsOf(<< <<Entrada, At(1, 8, 0)>>, <<Saida, At(1, 16, 11)>> >>)

ExampleInputs == {WorkdayWithBreak, WorkdayThenOpenShift, SevenMinutes, LongDay}

\* the whole list of one of the example days
GiveExample(example) ==
    /\ ~calcDone
    /\ input = <<>>
    /\ input' = example
    /\ UNCHANGED <<shifts, details, calcDone>>
    /\ UNCHANGED <<reportVars, storeVars, uiVars>>

CalcNext ==
    \/ \E type \in ClockType, timestamp \in TimeSet : AddInput(type, timestamp)
    \/ \E example \in ExampleInputs : GiveExample(example)
    \/ Calculate

-----------------------------------------------------------------------------
(* SpecLogin: LoginScreen, as App renders it, over the events the          *)
(* application has stored.                                                 *)

\* <LoginScreen onLogin={handleLogin} employees={employees} />: App hands
\* over the employees and no events, so the events prop is undefined
LoginScreenProps == [employees |-> employees, eventsDefined |-> FALSE, events |-> <<>>]

\* [...employeeEvents].sort((a, b) => getTime(b) - getTime(a)): a stable
\* sort, latest first
RECURSIVE InsertLatestFirst(_, _)
InsertLatestFirst(sorted, e) ==
    IF sorted = <<>> THEN <<e>>
    ELSE IF sorted[Len(sorted)].timestamp >= e.timestamp THEN Append(sorted, e)
    ELSE Append(InsertLatestFirst(SubSeq(sorted, 1, Len(sorted) - 1), e),
                sorted[Len(sorted)])

RECURSIVE SortLatestFirst(_)
SortLatestFirst(events) ==
    IF events = <<>> THEN <<>>
    ELSE InsertLatestFirst(SortLatestFirst(SubSeq(events, 1, Len(events) - 1)),
                           events[Len(events)])

PENDING_HOURS == 12

\* checkPendingClocks: events.filter raises a TypeError when the events prop
\* is undefined
checkPendingClocks(props, employeeId) ==
    IF ~props.eventsDefined THEN [threw |-> TRUE, hasPending |-> FALSE]
    ELSE LET of(e) == e.employeeId = employeeId
             employeeEvents == SelectSeq(props.events, of)
             lastEvent == SortLatestFirst(employeeEvents)[1]
         IN  IF Len(employeeEvents) = 0
             THEN [threw |-> FALSE, hasPending |-> FALSE]
             ELSE [threw |-> FALSE,
                   hasPending |-> /\ now - lastEvent.timestamp
                                        > PENDING_HOURS * MS_PER_HOUR
                                  /\ lastEvent.type # Saida]

\* allUsers.find(emp => emp.pin === pin)
FindByPin(allUsers, typed) ==
    LET at == {i \in 1..Len(allUsers) : allUsers[i].pin = typed}
    IN  IF at = {} THEN <<>> ELSE <<allUsers[CHOOSE i \in at : \A j \in at : i <= j]>>

LoginScreenIdle == [pin |-> "", error |-> ""]

\* the effect of LoginScreen once PIN_LENGTH digits are typed; an error
\* raised in the effect takes the application down
Login(typed) ==
    /\ loggedInEmployee = <<>>
    /\ loginScreen.error # "TypeError"
    /\ LET props == LoginScreenProps
           found == FindByPin(Append(props.employees, ADMIN_USER), typed)
       IN  IF found = <<>>
           THEN /\ loginScreen' = [pin |-> typed, error |-> "PIN invalido"]
                /\ UNCHANGED loggedInEmployee
           ELSE IF found[1].id = ADMIN_USER.id
           THEN /\ loginScreen' = [pin |-> typed, error |-> ""]
                /\ loggedInEmployee' = found
           ELSE IF checkPendingClocks(props, found[1].id).threw
           THEN /\ loginScreen' = [pin |-> typed, error |-> "TypeError"]
                /\ UNCHANGED loggedInEmployee
           ELSE IF checkPendingClocks(props, found[1].id).hasPending
           THEN /\ loginScreen' = [pin |-> typed, error |-> "Batida pendente"]
                /\ UNCHANGED loggedInEmployee
           ELSE /\ loginScreen' = [pin |-> typed, error |-> ""]
                /\ loggedInEmployee' = found
    /\ UNCHANGED <<calcVars, reportVars, storeVars, refreshVars, clientVars>>

handleLogout ==
    /\ loggedInEmployee # <<>>
    /\ loggedInEmployee' = <<>>
    /\ loginScreen' = LoginScreenIdle
    /\ UNCHANGED <<calcVars, reportVars, storeVars, refreshVars, clientVars>>

LoginNext ==
    \/ Tick
    \/ \E employeeId \in StoreEmployees, type \in StoreTypes :
          handleAddEvent(employeeId, type)
    \/ \E employeeId \in StoreEmployees, type \in StoreTypes, timestamp \in TimeSet :
          handleAddManualEvent(employeeId, type, timestamp)
    \/ \E typed \in PinSet : Login(typed)
    \/ handleLogout

-----------------------------------------------------------------------------
(* SpecRefresh: the admin dashboard under the refreshes of the poll.  App  *)
(* keeps the delivered collection in its allEvents state and renders       *)
(* <MainComponent />, which renders the memoised AdminDashboard.           *)

\* one function for every render
StableComponentType(render) == 0

\* const MainComponent = () => { ... } in the body of App: every render of
\* App makes a new function, and so a new element type
MainComponentType(render) == render

\* arePropsEqual of React.memo; the employees are compared by reference
arePropsEqual(prevEmployees, nextEmployees, prevEvents, nextEvents) ==
    LET prevLastId == IF Len(prevEvents) > 0
                      THEN <<prevEvents[Len(prevEvents)].id>> ELSE <<>>
        nextLastId == IF Len(nextEvents) > 0
                      THEN <<nextEvents[Len(nextEvents)].id>> ELSE <<>>
    IN  IF prevEmployees # nextEmployees THEN FALSE
        ELSE IF prevLastId # nextLastId \/ Len(prevEvents) # Len(nextEvents)
        THEN FALSE
        ELSE TRUE

\* useState of startDate and endDate: the first day of the month and today;
\* the days of the model are the first days of one month
DefaultStartDate == 0
DefaultEndDate == now \div DAY_MS

\* React renders App again with the next allEvents: an element of another
\* type is mounted anew (state at its defaults, memos computed), an element
\* of the same type is rendered again unless arePropsEqual holds
RenderDashboard(nextEmployees, nextEvents) ==
    IF MainComponentType(appRenders + 1) # MainComponentType(appRenders)
    THEN /\ allEvents' = nextEvents
         /\ startDate' = DefaultStartDate
         /\ endDate' = DefaultEndDate
         /\ selectedEmployeeId' = "all"
         /\ filtered' = filteredEvents(nextEvents, DefaultStartDate,
                                       DefaultEndDate, "all")
         /\ summary' = periodSummary(filteredEvents(nextEvents, DefaultStartDate,
                                                    DefaultEndDate, "all"))
    ELSE IF arePropsEqual(0, nextEmployees, allEvents, nextEvents)
    THEN UNCHANGED <<allEvents, startDate, endDate, selectedEmployeeId, filtered,
                     summary>>
    ELSE /\ allEvents' = nextEvents
         /\ filtered' = filteredEvents(nextEvents, startDate, endDate,
                                       selectedEmployeeId)
         /\ summary' = periodSummary(filteredEvents(nextEvents, startDate, endDate,
                                                    selectedEmployeeId))
         /\ UNCHANGED <<startDate, endDate, selectedEmployeeId>>

\* the callback of the poll: a collection that differs from the local one
\* replaces it (setAllEvents), the employees are replaced only when they
\* differ too, and App renders again
Refresh(kind, employeesReplaced, remoteEvents) ==
    /\ appRenders < MaxRefreshes
    /\ remoteEvents # delivered
    /\ delivered' = remoteEvents
    /\ appRenders' = appRenders + 1
    /\ lastRefresh' =
          [kind |-> kind,
           propsEqual |-> arePropsEqual(0, IF employeesReplaced THEN 1 ELSE 0,
                                        delivered, remoteEvents)]
    /\ RenderDashboard(IF employeesReplaced THEN 1 ELSE 0, remoteEvents)
    /\ UNCHANGED <<reported, csv, calcVars, storeVars, loginVars, clientVars>>

NextDeliveredId ==
    IF delivered = <<>> THEN 1
    ELSE 1 + CHOOSE m \in {delivered[i].id : i \in 1..Len(delivered)} :
                 \A i \in 1..Len(delivered) : delivered[i].id <= m

\* since the last poll another client has added an event
RefreshAdded(employeesReplaced, type, timestamp) ==
    /\ Len(delivered) < MaxEvents
    /\ Refresh("added", employeesReplaced,
               SortByTimestamp(Append(delivered,
                   [id |-> NextDeliveredId, employeeId |-> 1,
                    employeeName |-> INITIAL_EMPLOYEES[1].name,
                    type |-> type, timestamp |-> timestamp])))

\* since the last poll another client has deleted an event
RefreshDeleted(employeesReplaced, eventId) ==
    LET keep(event) == event.id # eventId
    IN  Refresh("deleted", employeesReplaced, SelectSeq(delivered, keep))

\* since the last poll another client has edited the timestamp or the type
\* of an event
RefreshEdited(employeesReplaced, eventId, type, timestamp) ==
    Refresh("edited", employeesReplaced,
            SortByTimestamp([i \in 1..Len(delivered) |->
                IF delivered[i].id = eventId
                THEN [delivered[i] EXCEPT !.type = type, !.timestamp = timestamp]
                ELSE delivered[i]]))

\* the admin picks another period or employee: the dashboard renders again
\* with the props it has
ChangeFilter(start, end, selected) ==
    /\ <<start, end, selected>> # <<startDate, endDate, selectedEmployeeId>>
    /\ startDate' = start
    /\ endDate' = end
    /\ selectedEmployeeId' = selected
    /\ filtered' = filteredEvents(allEvents, start, end, selected)
    /\ summary' = periodSummary(filteredEvents(allEvents, start, end, selected))
    /\ UNCHANGED <<allEvents, reported, csv, calcVars, storeVars, uiVars>>

NoRefresh == [kind |-> "", propsEqual |-> TRUE]

RefreshNext ==
    \/ \E employeesReplaced \in BOOLEAN, type \in StoreTypes, timestamp \in TimeSet :
          RefreshAdded(employeesReplaced, type, timestamp)
    \/ \E employeesReplaced \in BOOLEAN, i \in 1..Len(delivered) :
          RefreshDeleted(employeesReplaced, delivered[i].id)
    \/ \E employeesReplaced \in BOOLEAN, i \in 1..Len(delivered),
          type \in StoreTypes, timestamp \in TimeSet :
          RefreshEdited(employeesReplaced, delivered[i].id, type, timestamp)
    \/ \E start \in DateSet, end \in DateSet, selected \in {"all", IdStrings[1]} :
          ChangeFilter(start, end, selected)

-----------------------------------------------------------------------------
(* SpecClients: two clients of the global state.  Each runs App: it loads  *)
(* the collections, polls them, and changes them with updateGlobalState,   *)
(* whose awaits let the steps of the clients interleave.                   *)

Clients == {1, 2}
KioskEmployees == {1, 2}

NoUpdate == [phase |-> "none", kind |-> "", employees |-> <<>>, events |-> <<>>,
             history |-> <<>>, event |-> <<>>]
NoPoll == [read |-> FALSE, employees |-> <<>>, events |-> <<>>]

\* the updates started so far: those that have returned and those in flight
UpdatesStarted == Len(acks) + Cardinality({c \in Clients : update[c] # NoUpdate})

\* enabledActions of ClockScreen, from the events of the employee that App
\* hands over; today is the day of the clock
enabledActions(events) ==
    LET isToday(e) == e.timestamp \div DAY_MS = now \div DAY_MS
        todayEvents == SortByTimestamp(SelectSeq(events, isToday))
        lastTodayEvent == todayEvents[Len(todayEvents)]
    IN  IF Len(events) = 0 THEN {Entrada}
        ELSE IF Len(todayEvents) = 0 THEN {Entrada}
        ELSE IF lastTodayEvent.type = Entrada THEN {InicioIntervalo, Saida}
        ELSE IF lastTodayEvent.type = InicioIntervalo THEN {FimIntervalo}
        ELSE IF lastTodayEvent.type = FimIntervalo THEN {InicioIntervalo, Saida}
        ELSE {}

\* allEvents.filter(event => event.employeeId === loggedInEmployee.id)
employeeEvents(events, employeeId) ==
    LET of(event) == event.employeeId = employeeId IN SelectSeq(events, of)

\* loadGlobalState: the stored collections become the local state, and
\* isLoading becomes false
loadGlobalState(c) ==
    /\ isLoading[c]
    /\ local' = [local EXCEPT ![c] = [employees |-> employees,
                                      events |-> ReadEvents(storedEvents)]]
    /\ isLoading' = [isLoading EXCEPT ![c] = FALSE]
    /\ UNCHANGED <<update, poll, acks, calcVars, reportVars, storeVars,
                   refreshVars, loginVars>>

\* the interval of the poll, set once isLoading is false: the collections
\* are read
PollRead(c) ==
    /\ ~isLoading[c]
    /\ ~poll[c].read
    /\ poll' = [poll EXCEPT ![c] = [read |-> TRUE, employees |-> employees,
                                    events |-> ReadEvents(storedEvents)]]
    /\ UNCHANGED <<isLoading, local, update, acks, calcVars, reportVars, storeVars,
                   refreshVars, loginVars>>

\* what was read is dropped
PollDropped(c) ==
    /\ poll[c].read
    /\ poll' = [poll EXCEPT ![c] = NoPoll]
    /\ UNCHANGED <<isLoading, local, update, acks, calcVars, reportVars, storeVars,
                   refreshVars, loginVars>>

\* setEmployees and setAllEvents of the poll: what was read replaces the
\* local state where it differs
PollApply(c) ==
    /\ poll[c].read
    /\ local' = [local EXCEPT ![c] =
                    [employees |-> IF local[c].employees # poll[c].employees
                                   THEN poll[c].employees ELSE local[c].employees,
                     events |-> IF local[c].events # poll[c].events
                                THEN poll[c].events ELSE local[c].events]]
    /\ poll' = [poll EXCEPT ![c] = NoPoll]
    /\ UNCHANGED <<isLoading, update, acks, calcVars, reportVars, storeVars,
                   refreshVars, loginVars>>

\* READ and MODIFY of updateGlobalState: the collections are read and the
\* updater is applied to them
ReadAndModify(c, kind, updatedEmployees, updatedEvents, event) ==
    /\ ~isLoading[c]
    /\ update[c] = NoUpdate
    /\ UpdatesStarted < MaxUpdates
    /\ update' = [update EXCEPT ![c] =
                     [phase |-> "read", kind |-> kind,
                      employees |-> updatedEmployees, events |-> updatedEvents,
                      history |-> backupHistory, event |-> event]]
    /\ UNCHANGED <<isLoading, local, poll, acks, calcVars, reportVars, storeVars,
                   refreshVars, loginVars>>

\* handleClockEvent of ClockScreen, for a button that is enabled, and
\* handleAddEvent of App up to the updater
handleClockEvent(c, employeeId, type) ==
    /\ FindEmployee(local[c].employees, employeeId) # <<>>
    /\ type \in enabledActions(employeeEvents(local[c].events, employeeId))
    /\ LET loggedIn == FindEmployee(local[c].employees, employeeId)[1]
           newEvent == [id |-> now, employeeId |-> loggedIn.id,
                        employeeName |-> loggedIn.name,
                        type |-> type, timestamp |-> now]
       IN  ReadAndModify(c, "punch", employees,
                         SortByTimestamp(Append(ReadEvents(storedEvents), newEvent)),
                         <<newEvent>>)

\* handleUpdateEmployee of App up to the updater, for an employee renamed
\* in the edit form of the dashboard
BeginUpdateEmployee(c, employeeId) ==
    /\ FindEmployee(local[c].employees, employeeId) # <<>>
    /\ LET updatedEmployee ==
              [FindEmployee(local[c].employees, employeeId)[1]
                  EXCEPT !.name = "Ana Souza"]
       IN  ReadAndModify(c, "rename", Replaced(employees, updatedEmployee),
                         ReadEvents(storedEvents), <<>>)

\* WRITE of updateGlobalState: the employees and the events
WriteCollections(c) ==
    /\ update[c].phase = "read"
    /\ employees' = update[c].employees
    /\ storedEvents' = update[c].events
    /\ update' = [update EXCEPT ![c].phase = "written"]
    /\ UNCHANGED <<impl, backupHistory, now, nextEventId, nextEmployeeId, opCount,
                   response, isLoading, local, poll, acks, calcVars, reportVars,
                   refreshVars, loginVars>>

\* the snapshot is put at the head of the backup history that was read, the
\* local state is synchronised, and true is returned
FinishUpdate(c) ==
    /\ update[c].phase = "written"
    /\ backupHistory' =
          Take(<<[timestamp |-> now,
                  state |-> [employees |-> update[c].employees,
                             events |-> update[c].events]]>> \o update[c].history,
               MAX_BACKUP_ENTRIES)
    /\ local' = [local EXCEPT ![c] = [employees |-> update[c].employees,
                                      events |-> update[c].events]]
    /\ acks' = Append(acks, [client |-> c, ok |-> TRUE, kind |-> update[c].kind,
                             event |-> update[c].event])
    /\ update' = [update EXCEPT ![c] = NoUpdate]
    /\ UNCHANGED <<impl, employees, storedEvents, now, nextEventId, nextEmployeeId,
                   opCount, response, isLoading, poll, calcVars, reportVars,
                   refreshVars, loginVars>>

\* the setGlobalState that is awaited rejects: false is returned
FailUpdate(c) ==
    /\ update[c] # NoUpdate
    /\ acks' = Append(acks, [client |-> c, ok |-> FALSE, kind |-> update[c].kind,
                             event |-> update[c].event])
    /\ update' = [update EXCEPT ![c] = NoUpdate]
    /\ UNCHANGED <<isLoading, local, poll, calcVars, reportVars, storeVars,
                   refreshVars, loginVars>>

ClientsNext ==
    \/ Tick
    \/ \E c \in Clients : loadGlobalState(c)
    \/ \E c \in Clients : PollRead(c)
    \/ \E c \in Clients : PollApply(c)
    \/ \E c \in Clients, employeeId \in KioskEmployees, type \in ClockType :
          handleClockEvent(c, employeeId, type)
    \/ \E c \in Clients, employeeId \in KioskEmployees :
          BeginUpdateEmployee(c, employeeId)
    \/ \E c \in Clients : WriteCollections(c)
    \/ \E c \in Clients : FinishUpdate(c)
    \/ \E c \in Clients : FailUpdate(c)

\* no event given yet, nothing reported, an empty store
Idle ==
    /\ input = <<>>
    /\ shifts = <<>>
    /\ details = NoDetails
    /\ calcDone = FALSE
    /\ allEvents = <<>>
    /\ startDate = 0
    /\ endDate = 0
    /\ selectedEmployeeId = "all"
    /\ filtered = <<>>
    /\ summary = periodSummary(<<>>)
    /\ csv = NoCsv
    /\ reported = FALSE
    /\ impl = "app"
    /\ employees = INITIAL_EMPLOYEES
    /\ storedEvents = <<>>
    /\ backupHistory = <<>>
    /\ now = Step
    /\ nextEventId = 1
    /\ nextEmployeeId = Len(INITIAL_EMPLOYEES) + 1
    /\ opCount = 0
    /\ response = NoResponse
    /\ delivered = <<>>
    /\ appRenders = 0
    /\ lastRefresh = NoRefresh
    /\ loggedInEmployee = <<>>
    /\ loginScreen = LoginScreenIdle
    /\ isLoading = [c \in Clients |-> TRUE]
    /\ local = [c \in Clients |-> [employees |-> INITIAL_EMPLOYEES, events |-> <<>>]]
    /\ update = [c \in Clients |-> NoUpdate]
    /\ poll = [c \in Clients |-> NoPoll]
    /\ acks = <<>>

SpecCalc == Idle /\ [][CalcNext]_vars

SpecReport == Idle /\ [][ReportNext]_vars

SpecRefresh == Idle /\ [][RefreshNext]_vars

SpecLogin == Idle /\ [][LoginNext]_vars

SpecClients == Idle /\ [][ClientsNext]_vars

\* the callbacks of the load and of the interval are run by the event loop
\* of each client
SpecPoll ==
    /\ Idle
    /\ [][ClientsNext]_vars
    /\ \A c \in Clients :
          /\ WF_vars(loadGlobalState(c))
          /\ WF_vars(PollRead(c))
          /\ WF_vars(PollApply(c))

\* the store as the application is first opened, in any of its three
\* implementations: the initial employees and no event
Init ==
    /\ impl \in Impls
    /\ employees = INITIAL_EMPLOYEES
    /\ storedEvents = <<>>
    /\ backupHistory = <<>>
    /\ now = Step
    /\ nextEventId = 1
    /\ nextEmployeeId = Len(INITIAL_EMPLOYEES) + 1
    /\ opCount = 0
    /\ response = NoResponse
    /\ input = <<>>
    /\ shifts = <<>>
    /\ details = NoDetails
    /\ calcDone = FALSE
    /\ allEvents = <<>>
    /\ startDate = 0
    /\ endDate = 0
    /\ selectedEmployeeId = "all"
    /\ filtered = <<>>
    /\ summary = periodSummary(<<>>)
    /\ csv = NoCsv
    /\ reported = FALSE
    /\ delivered = <<>>
    /\ appRenders = 0
    /\ lastRefresh = NoRefresh
    /\ loggedInEmployee = <<>>
    /\ loginScreen = LoginScreenIdle
    /\ isLoading = [c \in Clients |-> TRUE]
    /\ local = [c \in Clients |-> [employees |-> INITIAL_EMPLOYEES, events |-> <<>>]]
    /\ update = [c \in Clients |-> NoUpdate]
    /\ poll = [c \in Clients |-> NoPoll]
    /\ acks = <<>>

Spec == Init /\ [][Next]_vars

-----------------------------------------------------------------------------
(* Properties of groupEventsByShifts, under SpecCalc *)

RECURSIVE SumSeq(_)
SumSeq(ns) == IF ns = <<>> THEN 0 ELSE Head(ns) + SumSeq(Tail(ns))

\* how many times the event with this id occurs over all output shifts
Occurrences(id) ==
    SumSeq([s \in 1..Len(shifts) |->
        Cardinality({i \in 1..Len(shifts[s]) : shifts[s][i].id = id})])

ShiftEventCount == SumSeq([s \in 1..Len(shifts) |-> Len(shifts[s])])

\* the last position <= n of the sorted list that holds an event of the type
LastOfType(sorted, type, n) ==
    LET at == {i \in 1..n : sorted[i].type = type}
    IN  IF at = {} THEN 0 ELSE CHOOSE i \in at : \A j \in at : j <= i

\* an orphan: a non-Entry event met while no shift is open, that is, when no
\* Entry precedes it or an Exit lies between the last Entry and it
Orphan(sorted, p) ==
    /\ sorted[p].type # Entrada
    /\ LastOfType(sorted, Entrada, p - 1) <= LastOfType(sorted, Saida, p - 1)

OrphanIds ==
    LET sorted == SortByTimestamp(input)
    IN  {sorted[p].id : p \in {q \in 1..Len(sorted) : Orphan(sorted, q)}}

\* C1 as stated: groupEventsByShifts drops no event, every input event is in
\* exactly one output shift and the shifts hold as many events as the input.
C1_NoEventDropped ==
    calcDone =>
        /\ \A k \in 1..Len(input) : Occurrences(input[k].id) = 1
        /\ ShiftEventCount = Len(input)

\* C1 amended: every input event is in at most one output shift; the events in
\* no shift are exactly the orphans (non-Entry events met while no shift is
\* open), so the shifts hold the input's events minus its orphans.
C1_OnlyOrphansDropped ==
    calcDone =>
        LET orphans == OrphanIds
        IN  /\ \A k \in 1..Len(input) :
                  Occurrences(input[k].id) = IF input[k].id \in orphans THEN 0 ELSE 1
            /\ ShiftEventCount = Len(input) - Cardinality(orphans)

C1_Witness ==
    /\ calcDone
    /\ OrphanIds # {}
    /\ ShiftEventCount > 0
    /\ Len(shifts) >= 2
    /\ shifts[Len(shifts)][Len(shifts[Len(shifts)])].type # Saida

Ascending(shift) ==
    \A i \in 1..(Len(shift) - 1) : shift[i].timestamp <= shift[i + 1].timestamp

ExitOnlyLast(shift) ==
    \A i \in 1..Len(shift) : shift[i].type = Saida => i = Len(shift)

\* C2 as stated: every shift is ascending by timestamp, starts with an Entry
\* that is its only Entry, and holds at most one Exit, which is its last event.
C2_ShiftShapeSingleEntry ==
    calcDone =>
        \A s \in 1..Len(shifts) :
            /\ Len(shifts[s]) > 0
            /\ Ascending(shifts[s])
            /\ shifts[s][1].type = Entrada
            /\ \A i \in 2..Len(shifts[s]) : shifts[s][i].type # Entrada
            /\ ExitOnlyLast(shifts[s])

\* C2 amended: every shift is ascending by timestamp, starts with an Entry
\* (later Entries may follow it), and holds at most one Exit, its last event.
C2_ShiftShape ==
    calcDone =>
        \A s \in 1..Len(shifts) :
            /\ Len(shifts[s]) > 0
            /\ Ascending(shifts[s])
            /\ shifts[s][1].type = Entrada
            /\ ExitOnlyLast(shifts[s])

C2_Witness ==
    /\ calcDone
    /\ \E s \in 1..Len(shifts) :
          /\ Len(shifts[s]) >= 3
          /\ shifts[s][2].type = Entrada
          /\ shifts[s][Len(shifts[s])].type = Saida
          /\ shifts[s][1].timestamp < shifts[s][Len(shifts[s])].timestamp

-----------------------------------------------------------------------------
(* Properties of calculateWorkDetails, under SpecCalc *)

HasType(events, type) == \E i \in 1..Len(events) : events[i].type = type

\* the time between consecutive events of the ascending list whose earlier
\* event leaves the employee working (an Entry or a BreakEnd)
RECURSIVE WorkedTime(_)
WorkedTime(sorted) ==
    IF Len(sorted) < 2 THEN 0
    ELSE (IF sorted[1].type \in {Entrada, FimIntervalo}
          THEN sorted[2].timestamp - sorted[1].timestamp
          ELSE 0) + WorkedTime(Tail(sorted))

AllZero(d) ==
    /\ d.total = 0
    /\ d.normal = 0
    /\ d.extra = 0
    /\ d.payment.normal = PayZero
    /\ d.payment.extra = PayZero
    /\ d.payment.total = PayZero

\* C3: for every list classified complete, total is the sum of the intervals
\* that follow an Entry or a BreakEnd, for every timestamp value.
C3_TotalIsWorkedTime ==
    (calcDone /\ details.status = "complete") =>
        details.total = WorkedTime(SortByTimestamp(input))

\* C4: for status complete, normal = min(total, 8h), extra = max(0, total - 8h),
\* normal + extra = total, 0 <= normal <= 8h, extra > 0 only when normal = 8h.
C4_NormalExtraSplit ==
    (calcDone /\ details.status = "complete") =>
        /\ NORMAL_WORK_MILLISECONDS = 28800000
        /\ details.total <= 28800000 =>
              (details.normal = details.total /\ details.extra = 0)
        /\ details.total > 28800000 =>
              (details.normal = 28800000 /\ details.extra = details.total - 28800000)
        /\ details.normal + details.extra = details.total
        /\ 0 <= details.normal /\ details.normal <= 28800000
        /\ details.extra > 0 => details.normal = 28800000

C4_Witness ==
    /\ calcDone
    /\ details.status = "complete"
    /\ details.extra > 0
    /\ details.normal = 28800000

\* C5: a list with no Entry (the empty list, a lone Exit) gets status no_entry
\* and zero total, normal, extra and payments.
C5_NoEntry ==
    (calcDone /\ ~HasType(input, Entrada)) =>
        (details.status = "no_entry" /\ AllZero(details))

C5_Witness ==
    /\ calcDone
    /\ Len(input) = 1
    /\ input[1].type = Saida
    /\ details.status = "no_entry"

\* C6: a list with an Entry that has no Exit, or whose last event in timestamp
\* order is an Entry or a BreakEnd, gets status incomplete and zero fields.
C6_Incomplete ==
    LET sorted == SortByTimestamp(input)
    IN  (/\ calcDone
         /\ HasType(input, Entrada)
         /\ \/ ~HasType(input, Saida)
            \/ sorted[Len(sorted)].type \in {Entrada, FimIntervalo}) =>
            (details.status = "incomplete" /\ AllZero(details))

C6_Witness ==
    /\ calcDone
    /\ HasType(input, Entrada)
    /\ HasType(input, Saida)
    /\ SortByTimestamp(input)[Len(input)].type = FimIntervalo
    /\ details.status = "incomplete"

\* an Entry followed in the list by its Exit, the Exit timestamped earlier
ExitEditedBeforeEntry ==
    /\ Len(input) = 2
    /\ input[1].type = Entrada
    /\ input[2].type = Saida
    /\ input[2].timestamp < input[1].timestamp

\* C7 as stated: a shift whose Exit was edited to a time earlier than its Entry
\* accumulates a negative elapsed time and gets status error.
C7_OutOfOrderIsError ==
    (calcDone /\ ExitEditedBeforeEntry) => details.status = "error"

\* C7 amended: no event list gets status error, because the events are sorted
\* before the scan and the accumulated time is never negative; an Entry with an
\* Exit timestamped earlier gets status incomplete with zero fields.
C7_NeverError ==
    calcDone =>
        /\ details.status # "error"
        /\ WorkScan(WorkInit, SortByTimestamp(input)).totalMillis >= 0
        /\ ExitEditedBeforeEntry =>
              (details.status = "incomplete" /\ AllZero(details))

C7_Witness ==
    /\ calcDone
    /\ ExitEditedBeforeEntry
    /\ details.status = "incomplete"

-----------------------------------------------------------------------------
(* Properties of the period summary, under SpecReport *)

\* the events of one employee that the period and the employee filter keep
KeptEventsOf(employeeId) ==
    LET kept(event) ==
            /\ event.employeeId = employeeId
            /\ StartOfDay(startDate) <= event.timestamp
            /\ event.timestamp <= EndOfDay(endDate)
            /\ selectedEmployeeId \in {"all", IdStrings[employeeId]}
    IN  SelectSeq(allEvents, kept)

\* the work details of the shifts of one employee within the filter
ShiftDetailsOf(employeeId) ==
    LET shiftList == groupEventsByShifts(KeptEventsOf(employeeId))
    IN  [i \in 1..Len(shiftList) |-> calculateWorkDetails(shiftList[i])]

\* the work details of all shifts of all employees within the filter
RECURSIVE DetailsUpTo(_)
DetailsUpTo(employeeId) ==
    IF employeeId = 0 THEN <<>>
    ELSE DetailsUpTo(employeeId - 1) \o ShiftDetailsOf(employeeId)

\* total, normal, extra and payment summed over the complete ones
RECURSIVE CompleteSums(_)
CompleteSums(dets) ==
    IF dets = <<>>
    THEN [total |-> 0, normal |-> 0, extra |-> 0, payment |-> PayZero]
    ELSE LET rest == CompleteSums(Tail(dets))
             det == Head(dets)
         IN  IF det.status = "complete"
             THEN [total |-> rest.total + det.total,
                   normal |-> rest.normal + det.normal,
                   extra |-> rest.extra + det.extra,
                   payment |-> PayAdd(det.payment.total, rest.payment)]
             ELSE rest

SummaryMatches(dets, sums) ==
    /\ summary.totalNormal + summary.totalExtra = sums.total
    /\ summary.totalNormal = sums.normal
    /\ summary.totalExtra = sums.extra
    /\ summary.totalPayment = sums.payment
    /\ \A i \in 1..Len(dets) :
          dets[i].status # "complete" =>
              (dets[i].total = 0 /\ dets[i].payment.total = PayZero)

\* C8: the summary's normal ms plus extra ms is the sum of total over exactly
\* the complete shifts of the filtered events, grouped per employee; shifts of
\* any other status add nothing to the normal, extra and payment totals.
C8_SummaryIsSumOfComplete ==
    reported =>
        LET dets == DetailsUpTo(Len(IdStrings))
        IN  SummaryMatches(dets, CompleteSums(dets))

C8_Witness ==
    /\ reported
    /\ summary.totalExtra > 0
    /\ summary.totalNormal = NORMAL_WORK_MILLISECONDS
    /\ \E e \in ReportEmployees : \E i \in 1..Len(ShiftDetailsOf(e)) :
          ShiftDetailsOf(e)[i].status = "incomplete"
    /\ \E i, j \in 1..Len(allEvents) : allEvents[i].employeeId # allEvents[j].employeeId

-----------------------------------------------------------------------------
(* Properties of the event store, under Spec *)

\* the stored events with this employee, type and timestamp
SameEvent(employeeId, type, timestamp) ==
    {i \in 1..Len(storedEvents) :
        /\ storedEvents[i].employeeId = employeeId
        /\ storedEvents[i].type = type
        /\ storedEvents[i].timestamp = timestamp}

\* the step handled a request to create an event (a manual add of the
\* administrator, or a POST whose body holds every required field)
CreateHandled ==
    /\ opCount' = opCount + 1
    /\ response'.op \in {"handleAddManualEvent", "POST"}
    /\ response'.complete

RejectedAsDuplicate(answer) ==
    /\ ~answer.ok
    /\ IF impl = "app"
       THEN answer.error = "duplicate"
       ELSE answer.status = 400 /\ answer.error = "Evento duplicado"

\* C9: a request to create an event whose employee, type and timestamp are
\* those of an event already stored is rejected (the manual add returns
\* false, the API answers 400 "Evento duplicado"), and the stored events,
\* the employees and the backup history are left as they were.
C9_DuplicateCreateRejected ==
    [][ (/\ CreateHandled
         /\ SameEvent(response'.employeeId, response'.type,
                      response'.timestamp) # {})
        => (/\ RejectedAsDuplicate(response')
            /\ UNCHANGED <<storedEvents, employees, backupHistory>>) ]_vars

\* a create request has just been rejected as the duplicate of a stored event
C9_Witness ==
    /\ response.op \in {"handleAddManualEvent", "POST"}
    /\ RejectedAsDuplicate(response)
    /\ SameEvent(response.employeeId, response.type, response.timestamp) # {}
    /\ Len(storedEvents) >= 2

\* C10: no two stored events of one employee have the same type and the
\* same timestamp, in any state the store reaches from the empty store.
C10_NoDuplicateEvents ==
    \A i \in 1..Len(storedEvents) :
        SameEvent(storedEvents[i].employeeId, storedEvents[i].type,
                  storedEvents[i].timestamp) = {i}

\* the step handled a request to delete an employee, and answered success
EmployeeDeleted ==
    /\ opCount' = opCount + 1
    /\ response'.op \in {"handleDeleteEmployee", "DELETE employee"}
    /\ response'.ok

\* C11: after a successful delete of employee e, in each of the three
\* stores, no stored event has employeeId = e and the events of every other
\* employee are as they were.
C11_DeleteEmployeeCascades ==
    [][ EmployeeDeleted
        => (/\ \A i \in 1..Len(storedEvents') :
                  storedEvents'[i].employeeId # response'.employeeId
            /\ WithoutEventsOf(storedEvents', response'.employeeId)
                  = WithoutEventsOf(storedEvents, response'.employeeId)) ]_vars

\* C12: in every reachable state the PINs of the employees are pairwise
\* distinct and none is the reserved PIN of the administrator.
C12_PinsUnique ==
    /\ \A i, j \in 1..Len(employees) :
          employees[i].pin = employees[j].pin => i = j
    /\ \A i \in 1..Len(employees) : employees[i].pin # ADMIN_USER.pin

-----------------------------------------------------------------------------
(* Shifts across midnight, under SpecCalc *)

DayOf(timestamp) == timestamp \div DAY_MS

\* the time between consecutive events of the ascending list whose earlier
\* event is a BreakStart
RECURSIVE BreakTime(_)
BreakTime(sorted) ==
    IF Len(sorted) < 2 THEN 0
    ELSE (IF sorted[1].type = InicioIntervalo
          THEN sorted[2].timestamp - sorted[1].timestamp
          ELSE 0) + BreakTime(Tail(sorted))

\* the events given are, in ascending order, an Entry on a day, breaks only,
\* and an Exit on the day after
MidnightShift(events) ==
    /\ Len(events) >= 2
    /\ \A i \in 1..(Len(events) - 1) : events[i].timestamp <= events[i + 1].timestamp
    /\ events[1].type = Entrada
    /\ events[Len(events)].type = Saida
    /\ \A i \in 2..(Len(events) - 1) : events[i].type \in {InicioIntervalo, FimIntervalo}
    /\ DayOf(events[Len(events)].timestamp) = DayOf(events[1].timestamp) + 1

MidnightShiftIsOne(events, groups, det) ==
    LET entry == events[1].timestamp
        exit == events[Len(events)].timestamp
        period == periodSummary(filteredEvents(events, DayOf(entry), DayOf(exit), "all"))
    IN  /\ groups = <<events>>
        /\ det.status = "complete"
        /\ det.total = (exit - entry) - BreakTime(events)
        /\ period.totalNormal + period.totalExtra = det.total

\* C13: an Entry on day D and the next Exit on day D+1, with breaks only
\* between them, are one shift of groupEventsByShifts, calculateWorkDetails
\* classifies it complete with total = (Exit - Entry) - break time, and the
\* period summary of a range covering both days holds that total.
C13_MidnightShiftIsOneShift ==
    (calcDone /\ MidnightShift(input)) => MidnightShiftIsOne(input, shifts, details)

-----------------------------------------------------------------------------
(* Payment, under SpecCalc *)

\* sixty times the amount in hundredths, for an amount that is a whole
\* number of sixtieths of a hundredth
TimesSixty(pay) == pay.cents * 60 + pay.frac \div (PayDen \div 60)

WholeSixtieths(pay) == pay.frac \in 0..(PayDen - 1) /\ pay.frac % (PayDen \div 60) = 0

-----------------------------------------------------------------------------
(* The filtered events, under SpecReport *)

\* the event is within the chosen days and of the chosen employee
InPeriod(event) ==
    /\ event.timestamp >= startDate * 86400000
    /\ event.timestamp <= endDate * 86400000 + 86399999
    /\ (selectedEmployeeId = "all" \/ selectedEmployeeId = IdStrings[event.employeeId])

\* C15: the filtered events are exactly the events of allEvents with
\* startOfDay(startDate) <= timestamp <= endOfDay(endDate), both bounds
\* included (00:00:00.000 and 23:59:59.999), of the selected employee or of
\* any employee under "all": none else is kept, none of these is left out.
C15_FilteredExactly ==
    reported =>
        /\ \A i \in 1..Len(allEvents) :
              (\E j \in 1..Len(filtered) : filtered[j] = allEvents[i])
                  <=> InPeriod(allEvents[i])
        /\ \A j \in 1..Len(filtered) :
              \E i \in 1..Len(allEvents) : filtered[j] = allEvents[i]
        /\ Len(filtered) = Cardinality({i \in 1..Len(allEvents) : InPeriod(allEvents[i])})

\* a one-day period kept an event of its first and one of its last
\* millisecond and left out the event of the next millisecond
C15_Witness ==
    /\ reported
    /\ startDate = endDate
    /\ \E j \in 1..Len(filtered) : filtered[j].timestamp = startDate * 86400000
    /\ \E j \in 1..Len(filtered) : filtered[j].timestamp = endDate * 86400000 + 86399999
    /\ \E i \in 1..Len(allEvents) :
          /\ allEvents[i].timestamp = (endDate + 1) * 86400000
          /\ \A j \in 1..Len(filtered) : filtered[j] # allEvents[i]

-----------------------------------------------------------------------------
(* The open shift and the repeated Entry, under SpecCalc *)

\* the positions of the events of the type in the list
PositionsOf(events, type) == {i \in 1..Len(events) : events[i].type = type}

\* the first Entry after the last Exit of the ascending list, 0 when none
OpenFrom(sorted) ==
    LET after == {i \in PositionsOf(sorted, Entrada) :
                     \A k \in PositionsOf(sorted, Saida) : k < i}
    IN  IF after = {} THEN 0 ELSE CHOOSE i \in after : \A j \in after : i <= j

\* C16: every shift but possibly the last ends with an Exit; when the scan
\* ends with an open shift (an Entry after the last Exit) the events from that
\* Entry on are the last shift, else the last shift ends with an Exit too;
\* Entry D1 08:00, Exit D1 17:00, Entry D2 09:00 gives exactly two shifts,
\* the first complete and the second incomplete.
C16_OpenShiftIsLast ==
    calcDone =>
        LET sorted == SortByTimestamp(input)
            from == OpenFrom(sorted)
        IN  /\ \A s \in 1..(Len(shifts) - 1) : shifts[s][Len(shifts[s])].type = Saida
            /\ IF from # 0
               THEN /\ shifts # <<>>
                    /\ shifts[Len(shifts)] = SubSeq(sorted, from, Len(sorted))
               ELSE \A s \in 1..Len(shifts) : shifts[s][Len(shifts[s])].type = Saida
            /\ input = WorkdayThenOpenShift =>
                  /\ Len(shifts) = 2
                  /\ calculateWorkDetails(shifts[1]).status = "complete"
                  /\ calculateWorkDetails(shifts[2]).status = "incomplete"

\* a closed shift followed by an open one of more than one event
C16_Witness ==
    /\ calcDone
    /\ Len(shifts) = 2
    /\ shifts[1][Len(shifts[1])].type = Saida
    /\ Len(shifts[2]) >= 2
    /\ shifts[2][Len(shifts[2])].type # Saida

\* C17: an Entry that comes while a shift is open is appended to that shift:
\* two Entries with no Exit between them (the first one kept) are in one
\* shift, and Entry, Entry, Exit in ascending order is one shift of three.
C17_EntryWhileOpenIsAppended ==
    calcDone =>
        LET sorted == SortByTimestamp(input)
        IN  /\ \A i, j \in PositionsOf(sorted, Entrada) :
                  (i < j /\ \A k \in PositionsOf(sorted, Saida) : k < i \/ k > j)
                      => \E s \in 1..Len(shifts) :
                            \E a, b \in 1..Len(shifts[s]) :
                                /\ a < b
                                /\ shifts[s][a] = sorted[i]
                                /\ shifts[s][b] = sorted[j]
            /\ (/\ Len(input) = 3
                /\ input[1].type = Entrada /\ input[2].type = Entrada
                /\ input[3].type = Saida
                /\ input[1].timestamp < input[2].timestamp
                /\ input[2].timestamp < input[3].timestamp)
                  => shifts = <<input>>

\* Entry, Entry, Exit at three different times, grouped as one shift
C17_Witness ==
    /\ calcDone
    /\ Len(input) = 3
    /\ input[1].type = Entrada /\ input[2].type = Entrada /\ input[3].type = Saida
    /\ input[1].timestamp < input[2].timestamp
    /\ input[2].timestamp < input[3].timestamp
    /\ Len(shifts) = 1
    /\ Len(shifts[1]) = 3

-----------------------------------------------------------------------------
(* The exported report, under SpecReport *)

\* the positions, in the filtered events, of the events of the type that the
\* employee has on the day
PunchesOn(employeeId, date, type) ==
    {i \in 1..Len(filtered) :
        /\ filtered[i].employeeId = employeeId
        /\ filtered[i].timestamp \div 86400000 = date
        /\ filtered[i].type = type}

TimeOfDay(timestamp) ==
    [hours |-> (timestamp % 86400000) \div 3600000,
     minutes |-> (timestamp % 3600000) \div 60000,
     seconds |-> (timestamp % 60000) \div 1000]

\* the time of the first of the employee's events of the type on the day,
\* <<>> when the day has none
FirstTimeOn(employeeId, date, type) ==
    LET at == PunchesOn(employeeId, date, type)
    IN  IF at = {} THEN <<>>
        ELSE <<TimeOfDay(filtered[CHOOSE i \in at : \A j \in at : i <= j].timestamp)>>

\* C18: in each row of the export, the columns Entry, BreakStart, BreakEnd
\* and Exit hold the time of the first event of that type which the employee
\* has on that day, and are empty when the day has none.
C18_CsvShowsFirstOfDay ==
    csv.exported =>
        \A r \in 1..Len(csv.rows) :
            LET row == csv.rows[r]
            IN  /\ row.entrada = FirstTimeOn(row.employeeId, row.date, Entrada)
                /\ row.inicioIntervalo
                      = FirstTimeOn(row.employeeId, row.date, InicioIntervalo)
                /\ row.fimIntervalo = FirstTimeOn(row.employeeId, row.date, FimIntervalo)
                /\ row.saida = FirstTimeOn(row.employeeId, row.date, Saida)

MinutesOf(formatted) == formatted.hours * 60 + formatted.minutes

\* C19: in each row of the export the normal time of the day is at most
\* 8 hours, and the worked time of the day beyond 8 hours is overtime, also
\* when the day holds several complete shifts.
C19_DailyNormalCap ==
    csv.exported =>
        \A r \in 1..Len(csv.rows) :
            LET row == csv.rows[r]
            IN  /\ MinutesOf(row.normalHours) <= 8 * 60
                /\ MinutesOf(row.totalHours) > 8 * 60
                      => MinutesOf(row.normalHours) = 8 * 60

-----------------------------------------------------------------------------
(* Duplicated events, under SpecCalc *)

\* the list without the event of this id
WithoutEvent(events, id) ==
    LET other(event) == event.id # id IN SelectSeq(events, other)

\* the events at positions i < j of the input are the same punch twice
DuplicateAt(i, j) ==
    /\ i < j
    /\ input[i].employeeId = input[j].employeeId
    /\ input[i].type = input[j].type
    /\ input[i].timestamp = input[j].timestamp

\* no third event of the input has the timestamp of the event at position i
AloneAt(i, j) ==
    \A k \in 1..Len(input) :
        input[k].timestamp = input[i].timestamp => k \in {i, j}

\* the shifts that hold the event
ShiftsWith(event) ==
    {s \in 1..Len(shifts) : \E a \in 1..Len(shifts[s]) : shifts[s][a] = event}

\* C20 as the specification states it: both copies of a duplicated event are
\* in one shift, and the total of that shift is larger than the total of the
\* same shift without the second copy.
C20_DuplicateDoubleCounts ==
    calcDone =>
        \A i, j \in 1..Len(input) :
            DuplicateAt(i, j) =>
                \E s \in ShiftsWith(input[i]) \cap ShiftsWith(input[j]) :
                    calculateWorkDetails(shifts[s]).total
                        > calculateWorkDetails(WithoutEvent(shifts[s], j)).total

\* C20: of an event present twice, with no third event at that time, the
\* second copy follows the first in the same shift when the first is kept and
\* is not an Exit, and is in no shift otherwise; the copies are adjacent, so
\* they add an interval of zero: each shift has the total it has without the
\* second copy, and so has the whole list.
C20_DuplicateAddsNothing ==
    calcDone =>
        \A i, j \in 1..Len(input) :
            (DuplicateAt(i, j) /\ AloneAt(i, j)) =>
                /\ IF input[i].type # Saida /\ ShiftsWith(input[i]) # {}
                   THEN /\ ShiftsWith(input[j]) = ShiftsWith(input[i])
                        /\ \A s \in ShiftsWith(input[i]) :
                              \E a \in 1..(Len(shifts[s]) - 1) :
                                  /\ shifts[s][a] = input[i]
                                  /\ shifts[s][a + 1] = input[j]
                   ELSE ShiftsWith(input[j]) = {}
                /\ \A s \in 1..Len(shifts) :
                      calculateWorkDetails(shifts[s]).total
                          = calculateWorkDetails(WithoutEvent(shifts[s], j)).total
                /\ groupEventsByShifts(WithoutEvent(input, j))
                      = [s \in 1..Len(shifts) |-> WithoutEvent(shifts[s], j)]
                /\ details.total = calculateWorkDetails(WithoutEvent(input, j)).total

\* a complete shift with worked time that holds both copies of an event
C20_Witness ==
    /\ calcDone
    /\ details.status = "complete"
    /\ details.total > 0
    /\ \E i, j \in 1..Len(input) :
          /\ DuplicateAt(i, j)
          /\ AloneAt(i, j)
          /\ ShiftsWith(input[i]) \cap ShiftsWith(input[j]) # {}

-----------------------------------------------------------------------------
(* Updating an employee, under Spec *)

\* the step handled a request to update an employee, and answered success
EmployeeUpdated ==
    /\ opCount' = opCount + 1
    /\ response'.op \in {"handleUpdateEmployee", "PUT employee"}
    /\ response'.ok

\* C22: a successful update of employee e, in each of the three stores,
\* leaves the stored events as they were, the cached employeeName of the
\* events of e included, and leaves every other employee record as it was.
C22_UpdateEmployeeFrame ==
    [][ EmployeeUpdated
        => (/\ storedEvents' = storedEvents
            /\ Len(employees') = Len(employees)
            /\ \A i \in 1..Len(employees) :
                  employees[i].id # response'.employeeId
                      => employees'[i] = employees[i]) ]_vars

\* an employee with a stored event has just been renamed: the event still
\* carries the earlier name, and there are other employees
C22_Witness ==
    /\ response.op \in {"handleUpdateEmployee", "PUT employee"}
    /\ response.ok
    /\ \E i \in 1..Len(employees), k \in 1..Len(storedEvents) :
          /\ employees[i].id = response.employeeId
          /\ storedEvents[k].employeeId = employees[i].id
          /\ storedEvents[k].employeeName # employees[i].name
    /\ \E i \in 1..Len(employees) : employees[i].id # response.employeeId

-----------------------------------------------------------------------------
(* The ids of the stored events, under Spec *)

\* C23: in every reachable state of the event store the ids of the stored
\* events are pairwise distinct, whenever the events were created.
C23_EventIdsDistinct ==
    \A i, j \in 1..Len(storedEvents) :
        storedEvents[i].id = storedEvents[j].id => i = j

-----------------------------------------------------------------------------
(* The grand total of the CSV export and the period summary, under         *)
(* SpecReport                                                              *)

\* the grand total handleExportCSV accumulates over the day rows, before it
\* is formatted
CsvGrandTotal(events) ==
    LET groups == sortedEmployees(employeeGroups(events))
    IN  AddDays(ZeroTotals, Flatten([g \in 1..Len(groups) |->
                                        eventsByDate(groups[g])]))

\* C24: once the report of a period with at least one matching event is
\* exported, the grand total of the CSV (normal ms, extra ms, payment) is
\* the period summary's, computed from the same filtered events.
C24_CsvAgreesWithSummary ==
    (csv.exported /\ ~csv.alert) =>
        /\ csv.total = TotalsRow(CsvGrandTotal(filtered))
        /\ CsvGrandTotal(filtered).totalNormal = summary.totalNormal
        /\ CsvGrandTotal(filtered).totalExtra = summary.totalExtra
        /\ CsvGrandTotal(filtered).totalPayment = summary.totalPayment

-----------------------------------------------------------------------------
(* The order of the input, under SpecCalc *)

\* the shifts of a list, each as the types and times of its events, with
\* the work details of each shift
ShiftResults(events) ==
    LET grouped == groupEventsByShifts(events)
    IN  [s \in 1..Len(grouped) |->
            [events |-> [k \in 1..Len(grouped[s]) |->
                            <<grouped[s][k].type, grouped[s][k].timestamp>>],
             details |-> calculateWorkDetails(grouped[s])]]

\* the input rearranged: position i holds the event that was at p[i]
Rearranged(p) == [i \in 1..Len(input) |-> input[p[i]]]

\* events with the same timestamp come in the order they had in the input
KeepsOrderOfTies(p) ==
    \A i, j \in 1..Len(input) :
        (i < j /\ input[p[i]].timestamp = input[p[j]].timestamp) => p[i] < p[j]

\* C29 as stated: every rearrangement of the list, lists where two events
\* share a timestamp included, has the same shifts with the same status,
\* total, normal and extra.
C29_OrderIndependent ==
    calcDone =>
        \A p \in Permutations(1..Len(input)) :
            ShiftResults(Rearranged(p)) = ShiftResults(input)

\* C29: every rearrangement of the list that keeps the relative order of the
\* events with equal timestamps (every rearrangement, when the timestamps
\* are pairwise distinct) has the same shifts with the same status, total,
\* normal and extra.
C29_OrderIndependentUpToTies ==
    calcDone =>
        \A p \in Permutations(1..Len(input)) :
            KeepsOrderOfTies(p) => ShiftResults(Rearranged(p)) = ShiftResults(input)

\* a list given out of timestamp order that holds a complete shift with
\* worked time
C29_Witness ==
    /\ calcDone
    /\ Len(input) >= 3
    /\ \E i \in 1..(Len(input) - 1) : input[i].timestamp > input[i + 1].timestamp
    /\ \E s \in 1..Len(shifts) :
          /\ calculateWorkDetails(shifts[s]).status = "complete"
          /\ calculateWorkDetails(shifts[s]).total > 0

-----------------------------------------------------------------------------
(* The dashboard after a refresh, under SpecRefresh *)

-----------------------------------------------------------------------------
(* Logging in, under SpecLogin *)

\* the step is an attempt to log in with this PIN
LoginAttempt(typed) ==
    /\ loggedInEmployee = <<>>
    /\ loginScreen'.pin = typed
    /\ UNCHANGED storeVars

\* the stored events of the employee, and the last of those with the
\* greatest timestamp
EventsOfEmployee(employeeId) == employeeEvents(storedEvents, employeeId)

MostRecentEvent(employeeId) ==
    LET own == EventsOfEmployee(employeeId)
        latest == {i \in 1..Len(own) :
                      \A j \in 1..Len(own) : own[j].timestamp <= own[i].timestamp}
    IN  own[CHOOSE i \in latest : \A j \in latest : j <= i]

HasPendingClock(employeeId) ==
    /\ EventsOfEmployee(employeeId) # <<>>
    /\ MostRecentEvent(employeeId).type # Saida
    /\ now - MostRecentEvent(employeeId).timestamp > PENDING_HOURS * MS_PER_HOUR

\* C28: an attempt to log in with the PIN of an employee is refused when
\* the most recent event of the employee is not an Exit and is more than 12
\* hours old, and logs the employee in otherwise (no events, latest event
\* an Exit, or at most 12 hours old); the PIN of the administrator logs the
\* administrator in whatever is stored.
C28_LoginRefusedIffPending ==
    [][ \A typed \in PinSet :
          LoginAttempt(typed) =>
              LET found == FindByPin(Append(employees, ADMIN_USER), typed)
              IN  IF found = <<>> THEN loggedInEmployee' = <<>>
                  ELSE IF found[1].id = ADMIN_USER.id THEN loggedInEmployee' = found
                  ELSE IF HasPendingClock(found[1].id) THEN loggedInEmployee' = <<>>
                  ELSE loggedInEmployee' = found ]_vars

-----------------------------------------------------------------------------
(* The poll, under SpecPoll *)

\* the local employees and events of the client are the stored ones
InSync(c) ==
    /\ local[c].employees = employees
    /\ local[c].events = storedEvents

\* C26: the poll of a client never reads while the client is still loading;
\* and once the store has stopped changing, each client's local employees
\* and events eventually equal the stored ones and stay equal.
C26_PollConverges ==
    /\ [](\A c \in Clients : poll[c].read => ~isLoading[c])
    /\ \A c \in Clients : <>[]InSync(c)

\* a client that has loaded is out of sync with the store, which another
\* client has changed, and its poll has not read the change yet
C26_Witness ==
    \E c \in Clients :
        /\ ~isLoading[c]
        /\ ~InSync(c)
        /\ ~poll[c].read
        /\ update[c] = NoUpdate
        /\ storedEvents # <<>>

-----------------------------------------------------------------------------
(* Concurrent updates, under SpecClients *)

\* the updates that have returned true, and how often an event is stored
SucceededWith(event) ==
    {k \in 1..Len(acks) : acks[k].ok /\ acks[k].event = <<event>>}

TimesStored(event) == Cardinality({i \in 1..Len(storedEvents) : storedEvents[i] = event})

\* C25: whatever the interleaving of the clients, once their updates have
\* returned, every update that has reported success is in the store: each
\* punched event is stored (as often as it was punched with success), and
\* an employee renamed with success has the new name.
C25_NoLostUpdate ==
    (\A c \in Clients : update[c] = NoUpdate) =>
        \A k \in 1..Len(acks) :
            acks[k].ok =>
                IF acks[k].kind = "punch"
                THEN TimesStored(acks[k].event[1])
                        >= Cardinality(SucceededWith(acks[k].event[1]))
                ELSE \E i \in 1..Len(employees) : employees[i].name = "Ana Souza"

-----------------------------------------------------------------------------
(* The punches of the kiosk, under SpecClients *)

\* where a day stands after its punches so far: "none", "working", "break",
\* "done", or "illegal" once a punch was not the legal next one
RECURSIVE DayAfter(_, _)
DayAfter(at, types) ==
    IF types = <<>> THEN at
    ELSE DayAfter(
            IF at = "none" /\ Head(types) = Entrada THEN "working"
            ELSE IF at = "working" /\ Head(types) = InicioIntervalo THEN "break"
            ELSE IF at = "working" /\ Head(types) = Saida THEN "done"
            ELSE IF at = "break" /\ Head(types) = FimIntervalo THEN "working"
            ELSE "illegal",
            Tail(types))

\* the types of the stored events of an employee on a day, in stored order
TypesOn(employeeId, day) ==
    LET onDay(e) == e.employeeId = employeeId /\ e.timestamp \div DAY_MS = day
        own == SelectSeq(storedEvents, onDay)
    IN  [i \in 1..Len(own) |-> own[i].type]

\* with these events of today, the last of them last, the buttons enabled
\* are those of the claim
EnabledAsClaimed(events) ==
    enabledActions(events) =
        IF events = <<>> THEN {Entrada}
        ELSE IF events[Len(events)].type \in {Entrada, FimIntervalo}
        THEN {InicioIntervalo, Saida}
        ELSE IF events[Len(events)].type = InicioIntervalo THEN {FimIntervalo}
        ELSE {}

\* C27: the kiosk enables {Entry} when the employee has no event today,
\* {BreakStart, Exit} after an Entry or a BreakEnd, {BreakEnd} after a
\* BreakStart and nothing after an Exit; and the events of an employee on
\* one day, all recorded through the kiosk, are an Entry, then pairs of
\* BreakStart and BreakEnd, then at most one Exit.
C27_KioskDayIsLegal ==
    /\ \A c \in Clients, e \in KioskEmployees :
          LET today(ev) == ev.timestamp \div DAY_MS = now \div DAY_MS
          IN  EnabledAsClaimed(SelectSeq(employeeEvents(local[c].events, e), today))
    /\ \A e \in KioskEmployees, day \in DateSet :
          DayAfter("none", TypesOn(e, day)) # "illegal"

-----------------------------------------------------------------------------
(* The backup history, under SpecClients *)

\* in this step the updateGlobalState of the client returns ok
UpdateReturns(c, ok) ==
    /\ Len(acks') = Len(acks) + 1
    /\ acks'[Len(acks')].client = c
    /\ acks'[Len(acks')].ok = ok

\* C30: the backup history never holds more than MAX_BACKUP_ENTRIES entries
\* and is newest first; when an updateGlobalState returns true, the first
\* entry holds the employees and events that update wrote to the store; an
\* update that fails adds no entry and has written nothing.
C30_BackupHistory ==
    [][ /\ Len(backupHistory') <= MAX_BACKUP_ENTRIES
        /\ \A i \in 1..(Len(backupHistory') - 1) :
              backupHistory'[i].timestamp >= backupHistory'[i + 1].timestamp
        /\ \A c \in Clients :
              /\ UpdateReturns(c, TRUE)
                    => backupHistory'[1].state =
                          [employees |-> update[c].employees,
                           events |-> update[c].events]
              /\ UpdateReturns(c, FALSE)
                    => /\ backupHistory' = backupHistory
                       /\ update[c].phase = "read" ]_vars

====
